---- MODULE Spec2Model ----
(***************************************************************************)
(* A model of pbrt-rust's quadric shapes (Sphere, Paraboloid), of the      *)
(* SurfaceInteraction record they produce and of GeometricPrimitive.       *)
(*                                                                         *)
(* Numbers.  The code computes in f32/f64 (Float).  The model computes in  *)
(* fixed point: a length or a ray parameter t is an integer number of      *)
(* 1/Scale units (the unit sphere has radius Scale), an angle is an        *)
(* integer number of centiradians (TWO_PI = 628), a unit vector has length *)
(* Scale.  Division truncates toward zero.  Float infinity is the value    *)
(* Infinity, on which the EFloat bounds saturate; a vector with a NaN      *)
(* component is the value NaNVec.                                          *)
(***************************************************************************)
EXTENDS Integers, Sequences, FiniteSets, TLC

VARIABLES
    shape,      \* the shape under test (built once by sphere() / paraboloid())
    ray,        \* the caller's ray: [o, d, t_max]
    err,        \* absolute error the EFloat arithmetic carries for this ray
    isect,      \* outcome of the last Shape::intersect on (shape, ray)
    hitp,       \* outcome of the last Shape::intersect_p on (shape, ray)
    prim,       \* outcome of the last GeometricPrimitive::intersect
    si,         \* a SurfaceInteraction built by surface_interaction()
    usg,        \* what update_shading_geometry returned for si
    primp,      \* outcome of the last GeometricPrimitive::intersect_p
    result,     \* the last call of a pure function, with what it returned
    transforms, \* TransformCache::transforms, a set of shared instances
    lookups,    \* per thread: its TransformCache call in progress or done
    mipmaps,    \* per cache: the HashMap from TexInfo to the shared MIPMap
    mutex,      \* per cache: the thread holding its Mutex, if any
    gets,       \* per thread: its MIPMapCache call in progress or done
    loads       \* the MIPMaps generate_mipmap built since the last clear

vars == <<shape, ray, err, isect, hitp, prim, si, usg, primp, result,
          transforms, lookups, mipmaps, mutex, gets, loads>>

shapeVars == <<shape, ray, err, isect, hitp, prim>>
siVars == <<si, usg>>
tcVars == <<transforms, lookups>>
mmVars == <<mipmaps, mutex, gets, loads>>

\* What the shape and surface-interaction operations leave alone.
otherVars == <<primp, result, tcVars, mmVars>>

----------------------------------------------------------------------------
(* Bounds of the model *)

\* Largest absolute error (in 1/Scale units) an EFloat root carries.
MaxErr == 1

----------------------------------------------------------------------------
(* Scalars *)

\* Fixed-point resolution: 1.0 is Scale units.
Scale == 10

\* Float::INFINITY (the t_max of an unbounded ray).
Infinity == 1000000

\* A NaN scalar (0.0 / 0.0).
NaN == -999999

\* TWO_PI in centiradians.
TWO_PI == 628

\* PI in centiradians.
PI == 314

\* Option: None, and Some(x).
None == [some |-> FALSE]

Some(x) == [some |-> TRUE, val |-> x]

Abs(x) == IF x < 0 THEN -x ELSE x

\* Float division, truncated toward zero; x/0 is +-inf, 0/0 is NaN.
FDiv(a, b) ==
    IF b = 0 THEN (IF a = 0 THEN NaN ELSE IF a > 0 THEN Infinity ELSE -Infinity)
    ELSE IF (a < 0) = (b < 0) THEN Abs(a) \div Abs(b)
    ELSE -(Abs(a) \div Abs(b))

min(a, b) == IF a < b THEN a ELSE b

max(a, b) == IF a > b THEN a ELSE b

clamp(v, lo, hi) == IF v < lo THEN lo ELSE IF v > hi THEN hi ELSE v

RECURSIVE SqrtSearch(_, _, _)
SqrtSearch(n, lo, hi) ==
    IF lo >= hi THEN lo
    ELSE LET mid == (lo + hi + 1) \div 2
         IN IF mid * mid <= n THEN SqrtSearch(n, mid, hi)
            ELSE SqrtSearch(n, lo, mid - 1)

\* Float::sqrt, rounded down.
sqrt(n) == SqrtSearch(n, 0, min(n, 46340))

\* Float::to_radians: degrees to centiradians.
to_radians(deg) == (deg * PI) \div 180

\* Float::acos of c / Scale, in centiradians: the chord through
\* acos(-1) = PI, acos(0) = PI/2, acos(1) = 0.
acos(c) == (PI \div 2) - FDiv(c * (PI \div 2), Scale)

\* Float::sin of an angle in [0, PI], times Scale: the parabola through
\* sin(0) = 0, sin(PI/2) = 1, sin(PI) = 0.
sin(theta) == FDiv(4 * theta * (PI - theta) * Scale, PI * PI)

\* The angle of (x, y) with 0 <= y <= x, x > 0, in centiradians.
OctantAngle(y, x) == FDiv((PI \div 4) * y, x)

\* The angle of (x, y) in the first quadrant, x >= 0, y >= 0, not both 0.
QuadrantAngle(y, x) ==
    IF y <= x THEN OctantAngle(y, x) ELSE (PI \div 2) - OctantAngle(x, y)

\* Float::atan2(y, x) in centiradians, in (-PI, PI]; atan2(0, 0) = 0.
atan2(y, x) ==
    IF x = 0 /\ y = 0 THEN 0
    ELSE LET q == QuadrantAngle(Abs(y), Abs(x))
             a == IF x >= 0 THEN q ELSE PI - q
         IN IF y < 0 THEN -a ELSE a

----------------------------------------------------------------------------
(* Vectors, points and normals *)

vector3(x, y, z) == [x |-> x, y |-> y, z |-> z]

\* A vector with a NaN component.
NaNVec == vector3(NaN, NaN, NaN)

IsNaNVec(v) == v.x = NaN \/ v.y = NaN \/ v.z = NaN

Neg(v) == IF IsNaNVec(v) THEN NaNVec ELSE vector3(-v.x, -v.y, -v.z)

Add(a, b) == vector3(a.x + b.x, a.y + b.y, a.z + b.z)

Mul(k, v) == vector3(k * v.x, k * v.y, k * v.z)

\* Dot product of two raw (unscaled) vectors; NaN if either holds a NaN.
Dot(a, b) ==
    IF IsNaNVec(a) \/ IsNaNVec(b) THEN NaN
    ELSE a.x * b.x + a.y * b.y + a.z * b.z

Cross(a, b) ==
    IF IsNaNVec(a) \/ IsNaNVec(b) THEN NaNVec
    ELSE vector3(a.y * b.z - a.z * b.y,
                 a.z * b.x - a.x * b.z,
                 a.x * b.y - a.y * b.x)

MaxAbs(v) == max(Abs(v.x), max(Abs(v.y), Abs(v.z)))

\* v * num / den, component by component.
Rescale(v, num, den) ==
    vector3(FDiv(v.x * num, den), FDiv(v.y * num, den), FDiv(v.z * num, den))

\* Vector3::length
Length(v) == sqrt(v.x * v.x + v.y * v.y + v.z * v.z)

\* v shrunk by a positive factor so that its squared length fits an integer
\* (the direction is kept).
Shrink(v) == Rescale(v, 1, (MaxAbs(v) \div 1000) + 1)

\* w / |w| for a vector that is neither zero nor NaN.
UnitOf(w) == Rescale(w, Scale, Length(w))

\* Vector3::normalize / Normal3::normalize: v / |v|, of length Scale.
\* The zero vector gives 0/0 in every component.
Normalize(v) ==
    IF IsNaNVec(v) \/ MaxAbs(v) = 0 THEN NaNVec ELSE UnitOf(Shrink(v))

\* FaceForward::face_forward: n flipped into the hemisphere of v.
FaceForward(n, v) ==
    IF Dot(n, v) # NaN /\ Dot(n, v) < 0 THEN Neg(n) ELSE n

----------------------------------------------------------------------------
(* Error-bounded floats *)

Sat(x) ==
    IF x >= Infinity THEN Infinity ELSE IF x <= -Infinity THEN -Infinity ELSE x

\* efloat(v, err): the value with its conservative interval.
efloat(v, e) ==
    [v |-> Sat(v),
     low |-> IF Abs(v) >= Infinity THEN Sat(v) ELSE Sat(v - e),
     high |-> IF Abs(v) >= Infinity THEN Sat(v) ELSE Sat(v + e)]

lower_bound(t) == t.low

upper_bound(t) == t.high

\* EFloat's PartialEq: the values are compared, not the intervals.
EFloatEq(a, b) == a.v = b.v

\* quadratic(a, b, c): None, or the roots (t0, t1) with t0.v <= t1.v, of
\* a t^2 + b t + c = 0, each with the error e the EFloat coefficients carry.
\* With a = 0 the root q / a is infinite.
quadratic(a, b, c, e) ==
    LET disc == b * b - 4 * a * c
        root == sqrt(disc)
        lin == FDiv(-c, b)
        r0 == IF a = 0 THEN (IF b > 0 THEN -Infinity ELSE lin)
              ELSE IF a > 0 THEN FDiv(-b - root, 2 * a)
              ELSE FDiv(-b + root, 2 * a)
        r1 == IF a = 0 THEN (IF b > 0 THEN lin ELSE Infinity)
              ELSE IF a > 0 THEN FDiv(-b + root, 2 * a)
              ELSE FDiv(-b - root, 2 * a)
    IN IF disc < 0 \/ (a = 0 /\ b = 0) THEN None
       ELSE Some([t0 |-> efloat(r0, e), t1 |-> efloat(r1, e)])

----------------------------------------------------------------------------
(* Transforms and shared shape data *)

\* The transforms the model builds shapes with: the identity, and the
\* reflection z -> -z (its own inverse, and one that swaps handedness).
Transforms == {"identity", "mirror_z"}

\* Transform::swaps_handedness: the determinant of the linear part is < 0.
swaps_handedness(T) == T = "mirror_z"

\* A transform applied to a point, a vector or a normal.
Apply(T, v) ==
    IF IsNaNVec(v) THEN NaNVec
    ELSE IF T = "mirror_z" THEN vector3(v.x, v.y, -v.z)
    ELSE v

\* Transform::transform_ray_with_error: the ray in the other space (the
\* error of the transformed origin and direction is the variable err).
transform_ray_with_error(T, r) ==
    [o |-> Apply(T, r.o), d |-> Apply(T, r.d), t_max |-> r.t_max]

\* shape_data(object_to_world, world_to_object, reverse_orientation)
shape_data(o2w, w2o, ro) ==
    [object_to_world |-> o2w,
     world_to_object |-> w2o,
     reverse_orientation |-> ro,
     transform_swaps_handedness |-> swaps_handedness(o2w)]

\* Ray::at(t) = o + d * t
at(r, t) == Add(r.o, Mul(t, r.d))

----------------------------------------------------------------------------
(* Shapes: construction *)

\* sphere() with z_min and z_max clamped in the order given.
sphere_Unordered(o2w, w2o, ro, radius, z_min, z_max, phi_max) ==
    [kind |-> "Sphere",
     radius |-> radius,
     z_min |-> clamp(z_min, -radius, radius),
     z_max |-> clamp(z_max, -radius, radius),
     theta_min |-> acos(clamp(FDiv(clamp(z_min, -radius, radius) * Scale,
                                   radius), -Scale, Scale)),
     theta_max |-> acos(clamp(FDiv(clamp(z_max, -radius, radius) * Scale,
                                   radius), -Scale, Scale)),
     phi_max |-> to_radians(clamp(phi_max, 0, 360)),
     data |-> shape_data(o2w, w2o, ro)]

\* sphere(object_to_world, world_to_object, reverse_orientation, radius,
\*        z_min, z_max, phi_max)
sphere(o2w, w2o, ro, radius, z_min, z_max, phi_max) ==
    LET zmin == clamp(min(z_min, z_max), -radius, radius)
        zmax == clamp(max(z_min, z_max), -radius, radius)
    IN [kind |-> "Sphere",
        radius |-> radius,
        z_min |-> zmin,
        z_max |-> zmax,
        theta_min |-> acos(clamp(FDiv(zmin * Scale, radius), -Scale, Scale)),
        theta_max |-> acos(clamp(FDiv(zmax * Scale, radius), -Scale, Scale)),
        phi_max |-> to_radians(clamp(phi_max, 0, 360)),
        data |-> shape_data(o2w, w2o, ro)]

\* paraboloid(object_to_world, world_to_object, reverse_orientation, radius,
\*            z_min, z_max, phi_max); it stores no theta range (0 here).
paraboloid(o2w, w2o, ro, radius, z_min, z_max, phi_max) ==
    LET zmin == clamp(min(z_min, z_max), -radius, radius)
        zmax == clamp(max(z_min, z_max), -radius, radius)
    IN [kind |-> "Paraboloid",
        radius |-> radius,
        z_min |-> zmin,
        z_max |-> zmax,
        theta_min |-> 0,
        theta_max |-> 0,
        phi_max |-> to_radians(clamp(phi_max, 0, 360)),
        data |-> shape_data(o2w, w2o, ro)]

\* Sphere::area with the full phi range in place of phi_max.
area_FullPhi(s) == TWO_PI * s.radius * (s.z_max - s.z_min)

\* Sphere::area(): phi_max * radius * (z_max - z_min), in units of
\* 1 / (100 * Scale * Scale).
area(s) == s.phi_max * s.radius * (s.z_max - s.z_min)

\* Sphere::object_bound() / Paraboloid::object_bound()
object_bound(s) ==
    [p_min |-> vector3(-s.radius, -s.radius, s.z_min),
     p_max |-> vector3(s.radius, s.radius, s.z_max)]

----------------------------------------------------------------------------
(* Surface interactions *)

\* shading(n, dpdu, dpdv, dndu, dndv)
shading(n, dpdu, dpdv) == [n |-> n, dpdu |-> dpdu, dpdv |-> dpdv]

\* surface_interaction(p, p_error, uv, wo, dpdu, dpdv, dndu, dndv, time,
\* shape).  The fields no modelled operation reads or changes (p_error, wo,
\* dndu, dndv, time, bsdf, bssrdf) are left out.
\* s.get_data().reverse_orientation ^ s.get_data().transform_swaps_handedness
\* of the attached shape, if any.
FlipsNormal_OrientationOnly(shp) ==
    shp.some /\ shp.val.data.reverse_orientation

FlipsNormal(shp) ==
    shp.some
    /\ (shp.val.data.reverse_orientation
        # shp.val.data.transform_swaps_handedness)

\* The record surface_interaction() returns for the normal n.
SurfaceInteractionOf(p, uv, dpdu, dpdv, shp, n) ==
    [hit |-> [p |-> p, n |-> n],
     uv |-> uv,
     dpdu |-> dpdu,
     dpdv |-> dpdv,
     shape |-> shp,
     shading |-> shading(n, dpdu, dpdv),
     primitive |-> None]

surface_interaction(p, uv, dpdu, dpdv, shp) ==
    SurfaceInteractionOf(
        p, uv, dpdu, dpdv, shp,
        IF FlipsNormal(shp) THEN Neg(Normalize(Cross(dpdu, dpdv)))
        ELSE Normalize(Cross(dpdu, dpdv)))

\* Transform::transform_surface_interaction: position, derivatives and
\* normals mapped to the other space; the references are carried over.
TransformedInteraction(T, s, n) ==
    [hit |-> [p |-> Apply(T, s.hit.p), n |-> n],
     uv |-> s.uv,
     dpdu |-> Apply(T, s.dpdu),
     dpdv |-> Apply(T, s.dpdv),
     shape |-> s.shape,
     shading |-> shading(FaceForward(Normalize(Apply(T, s.shading.n)), n),
                         Apply(T, s.shading.dpdu), Apply(T, s.shading.dpdv)),
     primitive |-> s.primitive]

transform_surface_interaction(T, s) ==
    TransformedInteraction(T, s, Normalize(Apply(T, s.hit.n)))

\* What update_shading_geometry returns for the shading normal it computed:
\* (hit_n, shading(shading_n, dpdu, dpdv, dndu, dndv)).
ShadingGeometry(hit_n, shading_n, dpdu, dpdv) ==
    [n |-> hit_n, shading |-> shading(shading_n, dpdu, dpdv)]

\* The flipped branch with the face-forward corrections exchanged: the
\* geometric normal is corrected when the orientation is not authoritative.
FlippedShadingGeometry_Exchanged(hit_n, shading_n, dpdu, dpdv, authoritative) ==
    IF authoritative
    THEN ShadingGeometry(hit_n, FaceForward(shading_n, hit_n), dpdu, dpdv)
    ELSE ShadingGeometry(FaceForward(hit_n, shading_n), shading_n, dpdu, dpdv)

\* The branch of update_shading_geometry taken when the attached shape's
\* reverse_orientation ^ transform_swaps_handedness is true, entered with
\* shading_n = -self.shading.n.
FlippedShadingGeometry(hit_n, shading_n, dpdu, dpdv, authoritative) ==
    IF authoritative
    THEN ShadingGeometry(FaceForward(hit_n, shading_n), shading_n, dpdu, dpdv)
    ELSE ShadingGeometry(hit_n, FaceForward(shading_n, hit_n), dpdu, dpdv)

\* SurfaceInteraction::update_shading_geometry(&self, dpdu, dpdv, dndu,
\* dndv, orientation_is_authoritative)
update_shading_geometry(self, dpdu, dpdv, authoritative) ==
    IF FlipsNormal(self.shape)
    THEN FlippedShadingGeometry(self.hit.n, Neg(self.shading.n), dpdu, dpdv,
                                authoritative)
    ELSE ShadingGeometry(self.hit.n, Normalize(Cross(dpdu, dpdv)), dpdu, dpdv)

\* intersection(t_hit, isect), with the path the call took through the
\* root tests and the number of clipping tests it evaluated.
Hit(t, s, path, clips) ==
    [some |-> TRUE, t |-> t, isect |-> Some(s), path |-> path, clips |-> clips]

\* No intersection: the return None / return false of the given path.
Miss(path, clips) ==
    [some |-> FALSE, t |-> 0, isect |-> None, path |-> path, clips |-> clips]

----------------------------------------------------------------------------
(* Sphere *)

\* The quadratic sphere coefficients of the object-space ray (sphere.rs
\* 106-108), solved by quadratic().
SphereRoots(s, r, e) ==
    LET a == Dot(r.d, r.d)
        b == 2 * Dot(r.d, r.o)
        c == Dot(r.o, r.o) - s.radius * s.radius
    IN quadratic(a, b, c, e)

\* "Refine sphere intersection point":
\* p_hit *= radius / p_hit.distance(origin)
Refine(s, p) == Rescale(p, s.radius, Length(p))

\* The hit point left on the z axis.
Nudge_None(s, p) == p

\* if p_hit.x == 0.0 && p_hit.y == 0.0 { p_hit.x = 1e-5 * radius }
\* 1e-5 * radius is below the model's resolution: the nudge is one unit, the
\* smallest positive length.
Nudge(s, p) == IF p.x = 0 /\ p.y = 0 THEN vector3(1, p.y, p.z) ELSE p

\* phi = p_hit.y.atan2(p_hit.x); if phi < 0.0 { phi += TWO_PI }
PhiOf(p) ==
    IF atan2(p.y, p.x) < 0 THEN atan2(p.y, p.x) + TWO_PI ELSE atan2(p.y, p.x)

\* A hit point with its angle phi.
WithPhi(p) == [p |-> p, phi |-> PhiOf(p)]

\* "Compute sphere hit position and phi": the point at t, re-projected onto
\* the sphere, nudged off the z axis, and its angle phi in [0, TWO_PI).
SphereHitPoint(s, r, t) == WithPhi(Nudge(s, Refine(s, at(r, t.v))))

\* "Test sphere intersection against clipping parameters"
SphereClipped(s, h) ==
    \/ (s.z_min > -s.radius /\ h.p.z < s.z_min)
    \/ (s.z_max < s.radius /\ h.p.z > s.z_max)
    \/ h.phi > s.phi_max

\* The parametric representation, dpdu, dpdv and the SurfaceInteraction of a
\* sphere hit (sphere.rs 176-246).
SphereTheta(s, p) == acos(clamp(FDiv(p.z * Scale, s.radius), -Scale, Scale))

SphereUV(s, h) ==
    [u |-> FDiv(h.phi * Scale, s.phi_max),
     v |-> FDiv((SphereTheta(s, h.p) - s.theta_min) * Scale,
                s.theta_max - s.theta_min)]

SphereDpdu(s, p) == vector3(-s.phi_max * p.y, s.phi_max * p.x, 0)

\* dpdv from cos_phi = p.x / z_radius, sin_phi = p.y / z_radius, theta
SphereDpdvFrom(s, p, z_radius, theta) ==
    Mul(s.theta_max - s.theta_min,
        vector3(FDiv(p.z * FDiv(p.x * Scale, z_radius), Scale),
                FDiv(p.z * FDiv(p.y * Scale, z_radius), Scale),
                -FDiv(s.radius * sin(theta), Scale)))

SphereDpdv(s, p) ==
    SphereDpdvFrom(s, p, sqrt(p.x * p.x + p.y * p.y), SphereTheta(s, p))

\* The interaction built with no shape attached.
SphereInteraction_NoShape(s, r, h) ==
    transform_surface_interaction(
        s.data.object_to_world,
        surface_interaction(h.p, SphereUV(s, h), SphereDpdu(s, h.p),
                            SphereDpdv(s, h.p), None))

SphereInteraction(s, r, h) ==
    transform_surface_interaction(
        s.data.object_to_world,
        surface_interaction(h.p, SphereUV(s, h), SphereDpdu(s, h.p),
                            SphereDpdv(s, h.p), Some(s)))

\* Sphere::intersect without the retry: a failed clipping test of the first
\* candidate ends the call.
SphereIntersect_NoRetry(s, r, e) ==
    LET ray_o == transform_ray_with_error(s.data.world_to_object, r)
        roots == SphereRoots(s, ray_o, e)
    IN IF ~roots.some THEN Miss("no_roots", 0)
       ELSE
       LET t0 == roots.val.t0
           t1 == roots.val.t1
           switched == lower_bound(t0) <= 0
           t_shape_hit == IF switched THEN t1 ELSE t0
           h == SphereHitPoint(s, ray_o, t_shape_hit)
       IN IF upper_bound(t0) > ray_o.t_max \/ lower_bound(t1) <= 0
          THEN Miss("reject_both", 0)
          ELSE IF switched /\ upper_bound(t_shape_hit) > ray_o.t_max
          THEN Miss("far_beyond", 0)
          ELSE IF SphereClipped(s, h) THEN Miss("clipped_far", 1)
          ELSE Hit(t_shape_hit.v, SphereInteraction(s, ray_o, h),
                   IF switched THEN "hit_far" ELSE "hit_near", 1)

\* Sphere::intersect with the first test on the wrong roots (the farther
\* root against t_max, the nearer against 0).
SphereIntersect_SwappedReject(s, r, e) ==
    LET ray_o == transform_ray_with_error(s.data.world_to_object, r)
        roots == SphereRoots(s, ray_o, e)
    IN IF ~roots.some THEN Miss("no_roots", 0)
       ELSE
       LET t0 == roots.val.t0
           t1 == roots.val.t1
           switched == lower_bound(t0) <= 0
           t_shape_hit == IF switched THEN t1 ELSE t0
           h == SphereHitPoint(s, ray_o, t_shape_hit)
           h1 == SphereHitPoint(s, ray_o, t1)
       IN IF lower_bound(t1) > ray_o.t_max \/ upper_bound(t0) <= 0
          THEN Miss("reject_both", 0)
          ELSE IF switched /\ upper_bound(t_shape_hit) > ray_o.t_max
          THEN Miss("far_beyond", 0)
          ELSE IF SphereClipped(s, h)
          THEN IF EFloatEq(t_shape_hit, t1) THEN Miss("clipped_far", 1)
               ELSE IF upper_bound(t1) > ray_o.t_max THEN Miss("retry_beyond", 1)
               ELSE IF SphereClipped(s, h1) THEN Miss("retry_clipped", 2)
               ELSE Hit(t1.v, SphereInteraction(s, ray_o, h1), "hit_retry", 2)
          ELSE Hit(t_shape_hit.v, SphereInteraction(s, ray_o, h),
                   IF switched THEN "hit_far" ELSE "hit_near", 1)

\* Sphere::intersect choosing the candidate by the nearer root's value
\* instead of its lower bound.
SphereIntersect_SwitchOnValue(s, r, e) ==
    LET ray_o == transform_ray_with_error(s.data.world_to_object, r)
        roots == SphereRoots(s, ray_o, e)
    IN IF ~roots.some THEN Miss("no_roots", 0)
       ELSE
       LET t0 == roots.val.t0
           t1 == roots.val.t1
           switched == t0.v <= 0
           t_shape_hit == IF switched THEN t1 ELSE t0
           h == SphereHitPoint(s, ray_o, t_shape_hit)
           h1 == SphereHitPoint(s, ray_o, t1)
       IN IF upper_bound(t0) > ray_o.t_max \/ lower_bound(t1) <= 0
          THEN Miss("reject_both", 0)
          ELSE IF switched /\ upper_bound(t_shape_hit) > ray_o.t_max
          THEN Miss("far_beyond", 0)
          ELSE IF SphereClipped(s, h)
          THEN IF EFloatEq(t_shape_hit, t1) THEN Miss("clipped_far", 1)
               ELSE IF upper_bound(t1) > ray_o.t_max THEN Miss("retry_beyond", 1)
               ELSE IF SphereClipped(s, h1) THEN Miss("retry_clipped", 2)
               ELSE Hit(t1.v, SphereInteraction(s, ray_o, h1), "hit_retry", 2)
          ELSE Hit(t_shape_hit.v, SphereInteraction(s, ray_o, h),
                   IF switched THEN "hit_far" ELSE "hit_near", 1)

\* Sphere::intersect without the t_max test of the farther root taken
\* when the nearer root is not in front of the origin.
SphereIntersect_NoFarTest(s, r, e) ==
    LET ray_o == transform_ray_with_error(s.data.world_to_object, r)
        roots == SphereRoots(s, ray_o, e)
    IN IF ~roots.some THEN Miss("no_roots", 0)
       ELSE
       LET t0 == roots.val.t0
           t1 == roots.val.t1
           switched == lower_bound(t0) <= 0
           t_shape_hit == IF switched THEN t1 ELSE t0
           h == SphereHitPoint(s, ray_o, t_shape_hit)
           h1 == SphereHitPoint(s, ray_o, t1)
       IN IF upper_bound(t0) > ray_o.t_max \/ lower_bound(t1) <= 0
          THEN Miss("reject_both", 0)
          ELSE IF SphereClipped(s, h)
          THEN IF EFloatEq(t_shape_hit, t1) THEN Miss("clipped_far", 1)
               ELSE IF upper_bound(t1) > ray_o.t_max THEN Miss("retry_beyond", 1)
               ELSE IF SphereClipped(s, h1) THEN Miss("retry_clipped", 2)
               ELSE Hit(t1.v, SphereInteraction(s, ray_o, h1), "hit_retry", 2)
          ELSE Hit(t_shape_hit.v, SphereInteraction(s, ray_o, h),
                   IF switched THEN "hit_far" ELSE "hit_near", 1)

\* Sphere::intersect(r, _): Hit(t_hit, isect) or Miss.
SphereIntersect(s, r, e) ==
    LET ray_o == transform_ray_with_error(s.data.world_to_object, r)
        roots == SphereRoots(s, ray_o, e)
    IN IF ~roots.some THEN Miss("no_roots", 0)
       ELSE
       LET t0 == roots.val.t0
           t1 == roots.val.t1
           switched == lower_bound(t0) <= 0
           t_shape_hit == IF switched THEN t1 ELSE t0
           h == SphereHitPoint(s, ray_o, t_shape_hit)
           h1 == SphereHitPoint(s, ray_o, t1)
       IN IF upper_bound(t0) > ray_o.t_max \/ lower_bound(t1) <= 0
          THEN Miss("reject_both", 0)
          ELSE IF switched /\ upper_bound(t_shape_hit) > ray_o.t_max
          THEN Miss("far_beyond", 0)
          ELSE IF SphereClipped(s, h)
          THEN IF EFloatEq(t_shape_hit, t1) THEN Miss("clipped_far", 1)
               ELSE IF upper_bound(t1) > ray_o.t_max THEN Miss("retry_beyond", 1)
               ELSE IF SphereClipped(s, h1) THEN Miss("retry_clipped", 2)
               ELSE Hit(t1.v, SphereInteraction(s, ray_o, h1), "hit_retry", 2)
          ELSE Hit(t_shape_hit.v, SphereInteraction(s, ray_o, h),
                   IF switched THEN "hit_far" ELSE "hit_near", 1)

\* Sphere::intersect_p(r, _): true or false, as Hit / Miss without an
\* interaction.
SphereIntersectP(s, r, e) ==
    LET ray_o == transform_ray_with_error(s.data.world_to_object, r)
        roots == SphereRoots(s, ray_o, e)
    IN IF ~roots.some THEN Miss("no_roots", 0)
       ELSE
       LET t0 == roots.val.t0
           t1 == roots.val.t1
           switched == lower_bound(t0) <= 0
           t_shape_hit == IF switched THEN t1 ELSE t0
           h == SphereHitPoint(s, ray_o, t_shape_hit)
           h1 == SphereHitPoint(s, ray_o, t1)
       IN IF upper_bound(t0) > ray_o.t_max \/ lower_bound(t1) <= 0
          THEN Miss("reject_both", 0)
          ELSE IF switched /\ upper_bound(t_shape_hit) > ray_o.t_max
          THEN Miss("far_beyond", 0)
          ELSE IF SphereClipped(s, h)
          THEN IF EFloatEq(t_shape_hit, t1) THEN Miss("clipped_far", 1)
               ELSE IF upper_bound(t1) > ray_o.t_max THEN Miss("retry_beyond", 1)
               ELSE IF SphereClipped(s, h1) THEN Miss("retry_clipped", 2)
               ELSE [Miss("hit_retry", 2) EXCEPT !.some = TRUE]
          ELSE [Miss(IF switched THEN "hit_far" ELSE "hit_near", 1)
                   EXCEPT !.some = TRUE]

----------------------------------------------------------------------------
(* Paraboloid *)

\* The quadratic paraboloid coefficients of the object-space ray
\* (paraboloid.rs 102-106), with k = z_max / radius^2; the three are held
\* multiplied by radius^2, which leaves the roots as they are.
ParaboloidRoots(s, r, e) ==
    LET r2 == s.radius * s.radius
        a == s.z_max * (r.d.x * r.d.x + r.d.y * r.d.y)
        b == 2 * s.z_max * (r.d.x * r.o.x + r.d.y * r.o.y) - r.d.z * r2
        c == s.z_max * (r.o.x * r.o.x + r.o.y * r.o.y) - r.o.z * r2
    IN quadratic(a, b, c, e)

\* "Compute paraboloid inverse mapping": the point at t and its angle phi.
ParaboloidHitPoint(s, r, t) == WithPhi(at(r, t.v))

\* "Test paraboloid intersection against clipping parameters"
ParaboloidClipped(s, h) ==
    h.p.z < s.z_min \/ h.p.z > s.z_max \/ h.phi > s.phi_max

\* The parametric representation, dpdu, dpdv and the SurfaceInteraction of a
\* paraboloid hit (paraboloid.rs 156-228).  At z = 0 the divisions by
\* 2 * p_hit.z leave an infinite or NaN component in dpdv.
ParaboloidUV(s, h) ==
    [u |-> FDiv(h.phi * Scale, s.phi_max),
     v |-> FDiv((h.p.z - s.z_min) * Scale, s.z_max - s.z_min)]

ParaboloidDpdu(s, p) == vector3(-s.phi_max * p.y, s.phi_max * p.x, 0)

ParaboloidDpdv(s, p) ==
    IF p.z = 0 THEN NaNVec
    ELSE Mul(s.z_max - s.z_min,
             vector3(FDiv(p.x * Scale, 2 * p.z), FDiv(p.y * Scale, 2 * p.z),
                     Scale))

ParaboloidInteraction(s, r, h) ==
    transform_surface_interaction(
        s.data.object_to_world,
        surface_interaction(h.p, ParaboloidUV(s, h), ParaboloidDpdu(s, h.p),
                            ParaboloidDpdv(s, h.p), Some(s)))

\* Paraboloid::intersect(r, _): Hit(t_hit, isect) or Miss.
ParaboloidIntersect(s, r, e) ==
    LET ray_o == transform_ray_with_error(s.data.world_to_object, r)
        roots == ParaboloidRoots(s, ray_o, e)
    IN IF ~roots.some THEN Miss("no_roots", 0)
       ELSE
       LET t0 == roots.val.t0
           t1 == roots.val.t1
           switched == lower_bound(t0) <= 0
           t_shape_hit == IF switched THEN t1 ELSE t0
           h == ParaboloidHitPoint(s, ray_o, t_shape_hit)
           h1 == ParaboloidHitPoint(s, ray_o, t1)
       IN IF upper_bound(t0) > ray_o.t_max \/ lower_bound(t1) <= 0
          THEN Miss("reject_both", 0)
          ELSE IF switched /\ upper_bound(t_shape_hit) > ray_o.t_max
          THEN Miss("far_beyond", 0)
          ELSE IF ParaboloidClipped(s, h)
          THEN IF EFloatEq(t_shape_hit, t1) THEN Miss("clipped_far", 1)
               ELSE IF upper_bound(t1) > ray_o.t_max THEN Miss("retry_beyond", 1)
               ELSE IF ParaboloidClipped(s, h1) THEN Miss("retry_clipped", 2)
               ELSE Hit(t1.v, ParaboloidInteraction(s, ray_o, h1), "hit_retry", 2)
          ELSE Hit(t_shape_hit.v, ParaboloidInteraction(s, ray_o, h),
                   IF switched THEN "hit_far" ELSE "hit_near", 1)

\* Paraboloid::intersect_p without the test t_shape_hit == t1: a clipped
\* farther root is tried again.
ParaboloidIntersectP_RetryAlways(s, r, e) ==
    LET ray_o == transform_ray_with_error(s.data.world_to_object, r)
        roots == ParaboloidRoots(s, ray_o, e)
    IN IF ~roots.some THEN Miss("no_roots", 0)
       ELSE
       LET t0 == roots.val.t0
           t1 == roots.val.t1
           switched == lower_bound(t0) <= 0
           t_shape_hit == IF switched THEN t1 ELSE t0
           h == ParaboloidHitPoint(s, ray_o, t_shape_hit)
           h1 == ParaboloidHitPoint(s, ray_o, t1)
       IN IF upper_bound(t0) > ray_o.t_max \/ lower_bound(t1) <= 0
          THEN Miss("reject_both", 0)
          ELSE IF switched /\ upper_bound(t_shape_hit) > ray_o.t_max
          THEN Miss("far_beyond", 0)
          ELSE IF ParaboloidClipped(s, h)
          THEN IF upper_bound(t1) > ray_o.t_max THEN Miss("retry_beyond", 1)
               ELSE IF ParaboloidClipped(s, h1) THEN Miss("retry_clipped", 2)
               ELSE [Miss("hit_retry", 2) EXCEPT !.some = TRUE]
          ELSE [Miss(IF switched THEN "hit_far" ELSE "hit_near", 1)
                   EXCEPT !.some = TRUE]

\* Paraboloid::intersect_p(r, _): true or false, as Hit / Miss without an
\* interaction.
ParaboloidIntersectP(s, r, e) ==
    LET ray_o == transform_ray_with_error(s.data.world_to_object, r)
        roots == ParaboloidRoots(s, ray_o, e)
    IN IF ~roots.some THEN Miss("no_roots", 0)
       ELSE
       LET t0 == roots.val.t0
           t1 == roots.val.t1
           switched == lower_bound(t0) <= 0
           t_shape_hit == IF switched THEN t1 ELSE t0
           h == ParaboloidHitPoint(s, ray_o, t_shape_hit)
           h1 == ParaboloidHitPoint(s, ray_o, t1)
       IN IF upper_bound(t0) > ray_o.t_max \/ lower_bound(t1) <= 0
          THEN Miss("reject_both", 0)
          ELSE IF switched /\ upper_bound(t_shape_hit) > ray_o.t_max
          THEN Miss("far_beyond", 0)
          ELSE IF ParaboloidClipped(s, h)
          THEN IF EFloatEq(t_shape_hit, t1) THEN Miss("clipped_far", 1)
               ELSE IF upper_bound(t1) > ray_o.t_max THEN Miss("retry_beyond", 1)
               ELSE IF ParaboloidClipped(s, h1) THEN Miss("retry_clipped", 2)
               ELSE [Miss("hit_retry", 2) EXCEPT !.some = TRUE]
          ELSE [Miss(IF switched THEN "hit_far" ELSE "hit_near", 1)
                   EXCEPT !.some = TRUE]

\* Shape::intersect and Shape::intersect_p, dispatched on the shape.
intersect(s, r, e) ==
    IF s.kind = "Sphere" THEN SphereIntersect(s, r, e)
    ELSE ParaboloidIntersect(s, r, e)

intersect_p(s, r, e) ==
    IF s.kind = "Sphere" THEN SphereIntersectP(s, r, e)
    ELSE ParaboloidIntersectP(s, r, e)

----------------------------------------------------------------------------
(* GeometricPrimitive *)

\* The assertion of GeometricPrimitive::intersect:
\* it.isect.hit.n.dot(&it.isect.shading.n) > 0.0 (false on a NaN).
NormalsAgree(s) ==
    Dot(s.hit.n, s.shading.n) # NaN /\ Dot(s.hit.n, s.shading.n) > 0

\* GeometricPrimitive::intersect that never writes r.t_max.
AfterShapeIntersect_KeepsTMax(r, it) ==
    IF ~it.some THEN [ray |-> r, ret |-> None, panicked |-> FALSE]
    ELSE IF ~NormalsAgree(it.isect.val)
    THEN [ray |-> r, ret |-> None, panicked |-> TRUE]
    ELSE [ray |-> r,
          ret |-> Some([it.isect.val EXCEPT !.primitive = Some("self")]),
          panicked |-> FALSE]

\* GeometricPrimitive::intersect(&mut r): the new ray and what is returned:
\* Some(interaction) with the primitive attached, None, or a panic of the
\* assertion (after r.t_max was written).
AfterShapeIntersect(r, it) ==
    IF ~it.some THEN [ray |-> r, ret |-> None, panicked |-> FALSE]
    ELSE IF ~NormalsAgree(it.isect.val)
    THEN [ray |-> [r EXCEPT !.t_max = it.t], ret |-> None, panicked |-> TRUE]
    ELSE [ray |-> [r EXCEPT !.t_max = it.t],
          ret |-> Some([it.isect.val EXCEPT !.primitive = Some("self")]),
          panicked |-> FALSE]

PrimitiveIntersectResult(s, r, e) == AfterShapeIntersect(r, intersect(s, r, e))

\* GeometricPrimitive::intersect_p(&r) = self.shape.intersect_p(r, true)
PrimitiveIntersectPResult(s, r, e) == intersect_p(s, r, e).some

----------------------------------------------------------------------------
(* The shapes and rays the model draws from *)

\* A call that was not made yet.
NotCalled == [called |-> FALSE]

Called(x) == [called |-> TRUE, ret |-> x]

\* Radii: the unit sphere.
Radii == {Scale}

\* (z_min, z_max) arguments: the full range, a cap cut off at z = 0.5, the
\* upper half given in reverse order, and a range wider than the radius.
ZRanges == {<<-10, 10>>, <<-10, 5>>, <<10, 0>>, <<-20, 20>>}

\* phi_max arguments, in degrees.
PhiMaxes == {360, 180}

Shapes ==
    {sphere(T, T, ro, rad, z[1], z[2], phi) :
        T \in Transforms, ro \in BOOLEAN, rad \in Radii, z \in ZRanges,
        phi \in PhiMaxes}
    \cup
    {paraboloid(T, T, ro, rad, z[1], z[2], phi) :
        T \in Transforms, ro \in BOOLEAN, rad \in Radii, z \in ZRanges,
        phi \in PhiMaxes}

Origins ==
    {vector3(x, y, z) : x \in {-6, 0, 6}, y \in {-8, 0, 8}, z \in {0, 11, 50}}

Directions == {vector3(0, 0, -1), vector3(0, 0, 1), vector3(1, 0, 0)}

\* t_max: an unbounded ray, and one cut off at t = 2.0.
TMaxes == {Infinity, 20}

Rays == {[o |-> o, d |-> d, t_max |-> tm] :
            o \in Origins, d \in Directions, tm \in TMaxes}

----------------------------------------------------------------------------
(* Shape intersection as a state machine *)

\* The threads that share the caches.
Threads == {"t1", "t2"}

\* The two static caches: RGB_SPECTRUM_MIPMAPS and FLOAT_MIPMAPS.
CacheIds == {"RGB_SPECTRUM_MIPMAPS", "FLOAT_MIPMAPS"}

\* A thread that is in no call.
Idle == [pc |-> "idle"]

\* The parts of the state an initial predicate does not exercise: no shape
\* call made, no interaction built, empty caches, idle threads.
NoShapeCalls ==
    /\ isect = NotCalled
    /\ hitp = NotCalled
    /\ prim = NotCalled
    /\ primp = NotCalled

NoInteraction == si = None /\ usg = NotCalled

\* TransformCache::default() and the caches' LazyLock initialisers.
EmptyCaches ==
    /\ transforms = {}
    /\ lookups = [th \in Threads |-> Idle]
    /\ mipmaps = [id \in CacheIds |-> {}]
    /\ mutex = [id \in CacheIds |-> None]
    /\ gets = [th \in Threads |-> Idle]
    /\ loads = {}

\* The shape and ray of the specifications that are not about shapes.
FixedShape ==
    /\ shape = sphere("identity", "identity", FALSE, Scale, -Scale, Scale, 360)
    /\ ray = [o |-> vector3(0, 0, 0), d |-> vector3(0, 0, 1), t_max |-> Infinity]
    /\ err = 0

Init ==
    /\ shape \in Shapes
    /\ ray \in Rays
    /\ err \in 0..MaxErr
    /\ NoShapeCalls
    /\ NoInteraction
    /\ result = NotCalled
    /\ EmptyCaches

\* shape.intersect(&ray, true) that writes the hit distance to the ray.
ShapeIntersect_WritesRay ==
    /\ isect' = Called(intersect(shape, ray, err))
    /\ ray' = IF intersect(shape, ray, err).some
              THEN [ray EXCEPT !.t_max = intersect(shape, ray, err).t]
              ELSE ray
    /\ UNCHANGED <<shape, err, hitp, prim, si, usg, otherVars>>

\* shape.intersect(&ray, true)
ShapeIntersect ==
    /\ isect' = Called(intersect(shape, ray, err))
    /\ UNCHANGED <<shape, ray, err, hitp, prim, si, usg, otherVars>>

\* shape.intersect_p(&ray, true)
ShapeIntersectP ==
    /\ hitp' = Called(intersect_p(shape, ray, err))
    /\ UNCHANGED <<shape, ray, err, isect, prim, si, usg, otherVars>>

\* GeometricPrimitive::intersect(&mut ray); the outcomes recorded for the
\* ray as it was are dropped when the ray changes.
PrimitiveReturns(res) ==
    /\ prim' = Called([ret |-> res.ret, panicked |-> res.panicked,
                       t_max_before |-> ray.t_max])
    /\ ray' = res.ray
    /\ isect' = IF res.ray = ray THEN isect ELSE NotCalled
    /\ hitp' = IF res.ray = ray THEN hitp ELSE NotCalled
    /\ primp' = IF res.ray = ray THEN primp ELSE NotCalled
    /\ UNCHANGED <<shape, err, si, usg, result, tcVars, mmVars>>

PrimitiveIntersect == PrimitiveReturns(PrimitiveIntersectResult(shape, ray, err))

Next == ShapeIntersect \/ ShapeIntersectP \/ PrimitiveIntersect

----------------------------------------------------------------------------
(* The primitive and the shape's other operations, on shapes of more kinds *)

\* Radii: the unit sphere and one twice as large.
PrimRadii == {Scale, 2 * Scale}

\* (z_min, z_max) arguments: the full range of the unit sphere, its upper
\* half (z_min = 0), and a range below the xy plane.
PrimZRanges == {<<-10, 10>>, <<0, 10>>, <<-10, -5>>}

PrimShapes ==
    {sphere(T, T, FALSE, rad, z[1], z[2], phi) :
        T \in Transforms, rad \in PrimRadii, z \in PrimZRanges,
        phi \in PhiMaxes}
    \cup
    {paraboloid(T, T, FALSE, rad, z[1], z[2], phi) :
        T \in Transforms, rad \in PrimRadii, z \in PrimZRanges,
        phi \in PhiMaxes}

PrimOrigins ==
    {vector3(-6, 0, -10), vector3(-6, 0, 10), vector3(0, 0, 50),
     vector3(6, 8, 50), vector3(-30, 0, 5)}

PrimDirections == {vector3(1, 0, 0), vector3(0, 0, -1)}

PrimRays == {[o |-> o, d |-> d, t_max |-> tm] :
                o \in PrimOrigins, d \in PrimDirections, tm \in TMaxes}

InitPrim ==
    /\ shape \in PrimShapes
    /\ ray \in PrimRays
    /\ err \in 0..MaxErr
    /\ NoShapeCalls
    /\ NoInteraction
    /\ result = NotCalled
    /\ EmptyCaches

\* GeometricPrimitive::intersect_p(&ray)
PrimitiveIntersectP ==
    /\ primp' = Called(PrimitiveIntersectPResult(shape, ray, err))
    /\ UNCHANGED <<shapeVars, siVars, result, tcVars, mmVars>>

\* Sphere::area(&self)
SphereArea ==
    /\ shape.kind = "Sphere"
    /\ result' = Called([op |-> "area", val |-> area(shape)])
    /\ UNCHANGED <<shapeVars, siVars, primp, tcVars, mmVars>>

\* Shape::object_bound(&self)
ObjectBound ==
    /\ result' = Called([op |-> "object_bound", val |-> object_bound(shape)])
    /\ UNCHANGED <<shapeVars, siVars, primp, tcVars, mmVars>>

NextPrim ==
    \/ ShapeIntersect
    \/ ShapeIntersectP
    \/ PrimitiveIntersect
    \/ PrimitiveIntersectP
    \/ SphereArea
    \/ ObjectBound

SpecPrim == InitPrim /\ [][NextPrim]_vars

Spec == Init /\ [][Next]_vars

----------------------------------------------------------------------------
(* Degenerate shapes *)

\* a * b on floats too large for the fixed-point range: an infinity.
SatMul(a, b) ==
    IF a = NaN \/ b = NaN THEN NaN
    ELSE IF a = 0 \/ b = 0 THEN 0
    ELSE IF Abs(a) >= Infinity \div Abs(b)
    THEN (IF (a < 0) = (b < 0) THEN Infinity ELSE -Infinity)
    ELSE a * b

\* a - b on floats: inf - inf is NaN.
SatSub(a, b) ==
    IF a = NaN \/ b = NaN THEN NaN
    ELSE IF Abs(a) = Infinity /\ a = b THEN NaN
    ELSE IF Abs(a) = Infinity THEN a
    ELSE IF Abs(b) = Infinity THEN -b
    ELSE a - b

\* e1 * g1 - f1 * f1 with e1 = dpdu.dot(&dpdu), f1 = dpdu.dot(&dpdv),
\* g1 = dpdv.dot(&dpdv): the divisor of inv_egf_1, used as it is.
FundamentalFormDivisor(dpdu, dpdv) ==
    SatSub(SatMul(Dot(dpdu, dpdu), Dot(dpdv, dpdv)),
           SatMul(Dot(dpdu, dpdv), Dot(dpdu, dpdv)))

\* let inv_egf_1 = 1.0 / (e1 * g1 - f1 * f1)
inv_egf_1(dpdu, dpdv) ==
    IF FundamentalFormDivisor(dpdu, dpdv) = NaN THEN NaN
    ELSE FDiv(Scale, FundamentalFormDivisor(dpdu, dpdv))

\* (z_min, z_max) arguments: the full range, and z_min = z_max at the
\* equator and above it.
DegenerateZRanges == {<<-10, 10>>, <<0, 0>>, <<5, 5>>}

\* phi_max arguments in degrees: the full sweep and none.
DegeneratePhiMaxes == {360, 0}

\* Shapes the constructors accept, in object space: spheres with
\* z_min = z_max or phi_max = 0, and paraboloids that start at the apex.
DegenerateShapes ==
    {sphere("identity", "identity", ro, Scale, z[1], z[2], phi) :
        ro \in BOOLEAN, z \in DegenerateZRanges, phi \in DegeneratePhiMaxes}
    \cup
    {paraboloid("identity", "identity", ro, Scale, 0, Scale, phi) :
        ro \in BOOLEAN, phi \in DegeneratePhiMaxes}

\* Rays in the planes z = 0 and z = 0.5, along the x and y axes.
DegenerateRays ==
    {[o |-> vector3(x, y, z), d |-> d, t_max |-> tm] :
        x \in {-30, -10, 30}, y \in {0}, z \in {0, 5},
        d \in {vector3(1, 0, 0), vector3(-1, 0, 0), vector3(0, 1, 0)},
        tm \in TMaxes}

InitDegenerate ==
    /\ shape \in DegenerateShapes
    /\ ray \in DegenerateRays
    /\ err \in 0..MaxErr
    /\ NoShapeCalls
    /\ NoInteraction
    /\ result = NotCalled
    /\ EmptyCaches

NextDegenerate == ShapeIntersect \/ ShapeIntersectP

SpecDegenerate == InitDegenerate /\ [][NextDegenerate]_vars

----------------------------------------------------------------------------
(* Constructed shapes *)

\* z_min / z_max arguments, in either order and beyond the radius.
ZArguments == {-30, -5, 0, 5, 30}

\* phi_max arguments in degrees, below 0 and above 360 too.
PhiArguments == {-90, 180, 720}

ConstructedShapes ==
    {sphere("identity", "identity", FALSE, rad, z1, z2, phi) :
        rad \in PrimRadii, z1 \in ZArguments, z2 \in ZArguments,
        phi \in PhiArguments}
    \cup
    {paraboloid("identity", "identity", FALSE, rad, z1, z2, phi) :
        rad \in PrimRadii, z1 \in ZArguments, z2 \in ZArguments,
        phi \in PhiArguments}

ConstructedRays ==
    {[o |-> o, d |-> d, t_max |-> Infinity] :
        o \in {vector3(-30, 0, 5), vector3(6, 8, 50)},
        d \in {vector3(1, 0, 0), vector3(0, 0, -1)}}

InitConstructed ==
    /\ shape \in ConstructedShapes
    /\ ray \in ConstructedRays
    /\ err \in 0..MaxErr
    /\ NoShapeCalls
    /\ NoInteraction
    /\ result = NotCalled
    /\ EmptyCaches

\* Shape::get_data(&self): self.data.clone()
GetData ==
    /\ result' = Called([op |-> "get_data", val |-> shape.data])
    /\ UNCHANGED <<shapeVars, siVars, primp, tcVars, mmVars>>

NextConstructed ==
    \/ ShapeIntersect
    \/ ShapeIntersectP
    \/ SphereArea
    \/ ObjectBound
    \/ GetData

SpecConstructed == InitConstructed /\ [][NextConstructed]_vars

----------------------------------------------------------------------------
(* One ray intersected with primitive after primitive *)

\* The distances of the hits returned so far for the ray: the last one and
\* the least one; none before the first hit.
NoHits == Called([op |-> "hits", last |-> None, nearest |-> None])

\* The record after a hit at distance t was returned.
HitsWith(t) ==
    Called([op |-> "hits",
            last |-> Some(t),
            nearest |-> IF result.ret.nearest.some
                        THEN Some(min(result.ret.nearest.val, t))
                        ELSE Some(t)])

\* primitive.intersect(&mut ray) on the primitive of the shape s, with the
\* outcome res and the shape's own answer it: the ray is written, and a
\* hit returned is at the distance it.t.
PrimitiveOfSceneReturns(s, res, it) ==
    /\ shape' = s
    /\ ray' = res.ray
    /\ prim' = Called([ret |-> res.ret, panicked |-> res.panicked,
                       t_max_before |-> ray.t_max])
    /\ result' = IF res.ret.some THEN HitsWith(it.t) ELSE result
    /\ isect' = NotCalled
    /\ hitp' = NotCalled
    /\ primp' = NotCalled
    /\ UNCHANGED <<err, siVars, tcVars, mmVars>>

\* The primitives of the scene: the shapes held in object space.
SceneShapes == {s \in PrimShapes : s.data.object_to_world = "identity"}

PrimitiveOfSceneIntersect ==
    \E s \in SceneShapes :
        PrimitiveOfSceneReturns(s, PrimitiveIntersectResult(s, ray, err),
                                intersect(s, ray, err))

InitScene ==
    /\ shape \in SceneShapes
    /\ ray \in PrimRays
    /\ err \in 0..MaxErr
    /\ NoShapeCalls
    /\ NoInteraction
    /\ result = NoHits
    /\ EmptyCaches

NextScene == PrimitiveOfSceneIntersect

SpecScene == InitScene /\ [][NextScene]_vars

----------------------------------------------------------------------------
(* Surface interactions as a state machine *)

\* dpdu / dpdv arguments: the axes, a reversed axis and a diagonal.
Tangents ==
    {vector3(10, 0, 0), vector3(0, 10, 0), vector3(0, 0, 10),
     vector3(0, -10, 0), vector3(7, 7, 0)}

\* The shape argument of surface_interaction(): none, or a full unit sphere
\* with each combination of reverse_orientation and transform.
AttachedShapes ==
    {None} \cup {Some(sphere(T, T, ro, Scale, -Scale, Scale, 360)) :
                    T \in Transforms, ro \in BOOLEAN}

InitSI ==
    /\ FixedShape
    /\ NoShapeCalls
    /\ NoInteraction
    /\ result = NotCalled
    /\ EmptyCaches

\* surface_interaction(p, .., uv, .., dpdu, dpdv, .., shape)
NewSurfaceInteraction ==
    /\ \E dpdu \in Tangents, dpdv \in Tangents, shp \in AttachedShapes :
          si' = Some(surface_interaction(vector3(0, 0, 0), [u |-> 0, v |-> 0],
                                         dpdu, dpdv, shp))
    /\ usg' = NotCalled
    /\ UNCHANGED <<shapeVars, otherVars>>

\* Normal3::normalize divides by the length, and Normal3's Div holds
\* debug_assert!(!f.is_zero()): with debug assertions compiled in, a zero
\* cross product panics; without them it becomes a NaN normal.
ZeroLengthPanics(dpdu, dpdv, debug_assertions) ==
    debug_assertions /\ MaxAbs(Cross(dpdu, dpdv)) = 0

\* What a call of update_shading_geometry leaves in usg: its arguments and
\* either a panic or the pair returned.
UpdateCall(dpdu, dpdv, authoritative, panicked) ==
    Called([authoritative |-> authoritative,
            dpdu |-> dpdu,
            dpdv |-> dpdv,
            panicked |-> panicked,
            out |-> IF panicked THEN None
                    ELSE update_shading_geometry(si.val, dpdu, dpdv,
                                                 authoritative)])

\* si.update_shading_geometry(dpdu, dpdv, dndu, dndv, authoritative), in a
\* build with or without debug assertions. self is borrowed immutably.
UpdateShadingGeometry ==
    /\ si.some
    /\ \E dpdu \in Tangents, dpdv \in Tangents, authoritative \in BOOLEAN,
          debug_assertions \in BOOLEAN :
          usg' = UpdateCall(dpdu, dpdv, authoritative,
                            ZeroLengthPanics(dpdu, dpdv, debug_assertions))
    /\ UNCHANGED <<si, shape, ray, err, isect, hitp, prim, otherVars>>

NextSI == NewSurfaceInteraction \/ UpdateShadingGeometry

SpecSI == InitSI /\ [][NextSI]_vars


----------------------------------------------------------------------------
(* TransformCache *)

\* The matrix values of the transforms looked up.
TransformValues == {"A", "B"}

\* The number of separately allocated Arc<Transform> per matrix value.
MaxArcs == 2

\* ArcTransform: a shared instance (the allocation id) of a matrix value.
\* Hash and Eq of an Arc are those of the value it points to.
ArcTransforms == [val : TransformValues, id : 1..MaxArcs]

\* HashSet::get comparing the instances instead of their values.
Get_ByIdentity(set, t) == IF t \in set THEN Some(t) ELSE None

\* HashSet::get(&t): the stored instance equal in value to t, if any.
Get(set, t) ==
    IF \E c \in set : c.val = t.val
    THEN Some(CHOOSE c \in set : c.val = t.val)
    ELSE None

\* HashSet::insert(t): a value already present is kept as it is.
Insert(set, t) ==
    IF \E c \in set : c.val = t.val THEN set ELSE set \cup {t}

\* No exclusion between the callers.
Exclusive_Shared(th) == TRUE

\* lookup and clear take &mut self: a call starts only while no other
\* thread is inside a call on the cache.
Exclusive(th) == \A o \in Threads \ {th} : lookups[o].pc # "get"

\* TransformCache::lookup(&mut self, t), entered: self.transforms.get(&t)
LookupBegin(th) ==
    /\ lookups[th].pc # "get"
    /\ Exclusive(th)
    /\ \E t \in ArcTransforms :
          lookups' = [lookups EXCEPT
                         ![th] = [pc |-> "get", t |-> t,
                                  found |-> Get(transforms, t)]]
    /\ UNCHANGED <<transforms, shapeVars, siVars, primp, result, mmVars>>

\* The instance lookup returns, and the set it leaves.
LookupOutcome(c) ==
    IF c.found.some
    THEN [ret |-> c.found.val, transforms |-> transforms]
    ELSE [ret |-> c.t, transforms |-> Insert(transforms, c.t)]

\* TransformCache::lookup, the match arms and the return.
LookupReturn(th) ==
    /\ lookups[th].pc = "get"
    /\ transforms' = LookupOutcome(lookups[th]).transforms
    /\ lookups' = [lookups EXCEPT
                      ![th] = [pc |-> "done", t |-> lookups[th].t,
                               ret |-> LookupOutcome(lookups[th]).ret]]
    /\ UNCHANGED <<shapeVars, siVars, primp, result, mmVars>>

\* TransformCache::clear(&mut self); the instances returned before it are
\* marked as coming from a cache that was cleared since.
Clear(th) ==
    /\ lookups[th].pc # "get"
    /\ Exclusive(th)
    /\ transforms' = {}
    /\ lookups' = [o \in Threads |->
                      IF lookups[o].pc = "done"
                      THEN [lookups[o] EXCEPT !.pc = "cleared"]
                      ELSE lookups[o]]
    /\ UNCHANGED <<shapeVars, siVars, primp, result, mmVars>>

InitTC ==
    /\ FixedShape
    /\ NoShapeCalls
    /\ NoInteraction
    /\ result = NotCalled
    /\ EmptyCaches

NextTC == \E th \in Threads : LookupBegin(th) \/ LookupReturn(th) \/ Clear(th)

SpecTC == InitTC /\ [][NextTC]_vars

----------------------------------------------------------------------------
(* MIPMapCache *)

\* The TexInfo keys the textures are requested with.
TexInfos == {"a.png", "b.png"}

\* The thread is inside MIPMapCache::get or clear_mipmap_caches.
InCall(th) == gets[th].pc \in {"locked", "loading", "clearing"}

\* Mutex::lock() that never waits.
CanLock_Always(id) == TRUE

\* $id.lock(): the calling thread goes on once no thread holds the mutex.
CanLock(id) == ~mutex[id].some

\* HashMap::get(&info): the entries of the map stored under info.
Cached(map, info) == {e \in map : e.info = info}

\* HashMap::insert(info, mipmap): an entry stored under info is replaced.
Stored(map, info, mipmap) ==
    (map \ Cached(map, info)) \cup {[info |-> info, mipmap |-> mipmap]}

\* The Arc<MIPMap> a successful generate_mipmap allocates: one not built
\* before for this cache.
NewMIPMap(id, info) ==
    [cache |-> id, info |-> info,
     n |-> Cardinality({l \in loads : l.cache = id}) + 1]

\* MIPMapCache::get(info) on the cache id, entered:
\* let mut mipmaps = $id.lock().expect(..)
GetLock(th) ==
    /\ ~InCall(th)
    /\ \E id \in CacheIds, info \in TexInfos :
          /\ CanLock(id)
          /\ mutex' = [mutex EXCEPT ![id] = Some(th)]
          /\ gets' = [gets EXCEPT
                         ![th] = [pc |-> "locked", cache |-> id, info |-> info]]
    /\ UNCHANGED <<mipmaps, loads, shapeVars, siVars, primp, result, tcVars>>

\* What get leaves in gets when it returns r; the guard is dropped.
Returned(c, r) == [pc |-> "done", cache |-> c.cache, info |-> c.info, ret |-> r]

\* match mipmaps.get(&info): Some(mipmap) => Ok(Arc::clone(&mipmap)),
\* None => go on to generate_mipmap with the mutex held.
GetMatch(th) ==
    /\ gets[th].pc = "locked"
    /\ IF Cached(mipmaps[gets[th].cache], gets[th].info) # {}
       THEN /\ \E e \in Cached(mipmaps[gets[th].cache], gets[th].info) :
                  gets' = [gets EXCEPT
                              ![th] = Returned(gets[th], Some(e.mipmap))]
            /\ mutex' = [mutex EXCEPT ![gets[th].cache] = None]
       ELSE /\ gets' = [gets EXCEPT ![th].pc = "loading"]
            /\ UNCHANGED mutex
    /\ UNCHANGED <<mipmaps, loads, shapeVars, siVars, primp, result, tcVars>>

\* let mipmap = generate_mipmap(&info)?: reading the image failed.
GetLoadFails(th) ==
    /\ gets[th].pc = "loading"
    /\ gets' = [gets EXCEPT ![th] = Returned(gets[th], None)]
    /\ mutex' = [mutex EXCEPT ![gets[th].cache] = None]
    /\ UNCHANGED <<mipmaps, loads, shapeVars, siVars, primp, result, tcVars>>

\* generate_mipmap succeeded: mipmaps.insert(info, Arc::clone(&mipmap));
\* Ok(mipmap)
GetLoadStores(th, mipmap) ==
    /\ gets[th].pc = "loading"
    /\ mipmaps' = [mipmaps EXCEPT
                      ![gets[th].cache] = Stored(@, gets[th].info, mipmap)]
    /\ loads' = loads \cup {mipmap}
    /\ gets' = [gets EXCEPT ![th] = Returned(gets[th], Some(mipmap))]
    /\ mutex' = [mutex EXCEPT ![gets[th].cache] = None]
    /\ UNCHANGED <<shapeVars, siVars, primp, result, tcVars>>

GetLoad(th) ==
    /\ gets[th].pc = "loading"
    /\ GetLoadStores(th, NewMIPMap(gets[th].cache, gets[th].info))

\* The calls that returned from the cache id before it was cleared are
\* marked; the other threads' calls stay as they are.
AfterClear(id, th, pc) ==
    [o \in Threads |->
        IF o = th THEN [pc |-> pc]
        ELSE IF gets[o].pc = "done" /\ gets[o].cache = id
        THEN [gets[o] EXCEPT !.pc = "cleared"]
        ELSE gets[o]]

\* clear_mipmap_caches(), first half: RGB_SPECTRUM_MIPMAPS locked and
\* cleared; its guard lives to the end of the function.
ClearRGB(th) ==
    /\ ~InCall(th)
    /\ CanLock("RGB_SPECTRUM_MIPMAPS")
    /\ mutex' = [mutex EXCEPT !["RGB_SPECTRUM_MIPMAPS"] = Some(th)]
    /\ mipmaps' = [mipmaps EXCEPT !["RGB_SPECTRUM_MIPMAPS"] = {}]
    /\ loads' = {l \in loads : l.cache # "RGB_SPECTRUM_MIPMAPS"}
    /\ gets' = AfterClear("RGB_SPECTRUM_MIPMAPS", th, "clearing")
    /\ UNCHANGED <<shapeVars, siVars, primp, result, tcVars>>

\* clear_mipmap_caches(), second half: FLOAT_MIPMAPS locked and cleared,
\* then both guards dropped.
ClearFloat(th) ==
    /\ gets[th].pc = "clearing"
    /\ CanLock("FLOAT_MIPMAPS")
    /\ mutex' = [mutex EXCEPT !["RGB_SPECTRUM_MIPMAPS"] = None]
    /\ mipmaps' = [mipmaps EXCEPT !["FLOAT_MIPMAPS"] = {}]
    /\ loads' = {l \in loads : l.cache # "FLOAT_MIPMAPS"}
    /\ gets' = AfterClear("FLOAT_MIPMAPS", th, "idle")
    /\ UNCHANGED <<shapeVars, siVars, primp, result, tcVars>>

InitMM ==
    /\ FixedShape
    /\ NoShapeCalls
    /\ NoInteraction
    /\ result = NotCalled
    /\ EmptyCaches

NextMM ==
    \E th \in Threads :
        \/ GetLock(th)
        \/ GetMatch(th)
        \/ GetLoadFails(th)
        \/ GetLoad(th)
        \/ ClearRGB(th)
        \/ ClearFloat(th)

SpecMM == InitMM /\ [][NextMM]_vars

----------------------------------------------------------------------------
(* LightType *)

DELTA_POSITION_LIGHT == 1

DELTA_DIRECTION_LIGHT == 2

AREA_LIGHT == 4

INFINITE_LIGHT == 8

LightFlags ==
    {DELTA_POSITION_LIGHT, DELTA_DIRECTION_LIGHT, AREA_LIGHT, INFINITE_LIGHT}

\* The u8 values the conversion is called with: every combination of the
\* four flags, and values with a higher bit set.
FlagBytes == 0..31

\* a & b on u8.
RECURSIVE BitAnd(_, _)
BitAnd(a, b) ==
    IF a = 0 \/ b = 0 THEN 0
    ELSE (a % 2) * (b % 2) + 2 * BitAnd(a \div 2, b \div 2)

\* assert!(t <= INFINITE_LIGHT, ..) in LightType::from
FromAccepts(t) == t <= INFINITE_LIGHT

\* The LightType values that exist: t is private, from is the only
\* constructor.
LightTypes == {t \in FlagBytes : FromAccepts(t)}

\* PartialEq::eq: self.t & other.t == self.t
eq(self, other) == BitAnd(self, other) = self

\* LightType::matches: self.t & flag > 0
matches(self, flag) == BitAnd(self, flag) > 0

\* LightType::is_delta_light
is_delta_light(self) ==
    \/ BitAnd(self, DELTA_POSITION_LIGHT) > 0
    \/ BitAnd(self, DELTA_DIRECTION_LIGHT) > 0

\* LightType::from(t): panics when the assertion fails, else Self { t }.
LightTypeFrom ==
    /\ \E t \in FlagBytes :
          result' = Called([op |-> "from", t |-> t,
                            panicked |-> ~FromAccepts(t),
                            val |-> IF FromAccepts(t) THEN Some(t) ELSE None])
    /\ UNCHANGED <<shapeVars, siVars, primp, tcVars, mmVars>>

\* a == b on two light types.
LightTypeEq ==
    /\ \E a \in LightTypes, b \in LightTypes :
          result' = Called([op |-> "eq", a |-> a, b |-> b, val |-> eq(a, b)])
    /\ UNCHANGED <<shapeVars, siVars, primp, tcVars, mmVars>>

LightTypeMatches ==
    /\ \E a \in LightTypes, flag \in LightFlags :
          result' = Called([op |-> "matches", a |-> a, flag |-> flag,
                            val |-> matches(a, flag)])
    /\ UNCHANGED <<shapeVars, siVars, primp, tcVars, mmVars>>

LightTypeIsDeltaLight ==
    /\ \E a \in LightTypes :
          result' = Called([op |-> "is_delta_light", a |-> a,
                            val |-> is_delta_light(a)])
    /\ UNCHANGED <<shapeVars, siVars, primp, tcVars, mmVars>>

InitLT ==
    /\ FixedShape
    /\ NoShapeCalls
    /\ NoInteraction
    /\ result = NotCalled
    /\ EmptyCaches

NextLT ==
    \/ LightTypeFrom
    \/ LightTypeEq
    \/ LightTypeMatches
    \/ LightTypeIsDeltaLight

SpecLT == InitLT /\ [][NextLT]_vars

----------------------------------------------------------------------------
(* Normal3<T>: division *)

\* The component types T the operators are instantiated with.
ComponentTypes == {"i64", "f64"}

IsFloat(T) == T = "f64"

\* T::one()
One(T) == IF IsFloat(T) THEN Scale ELSE 1

\* Component values of T: whole numbers for i64, fixed point for f64.
Components(T) == {-One(T), 0, One(T)}

Normals(T) == {vector3(x, y, z) : x \in Components(T), y \in Components(T),
                                  z \in Components(T)}

Divisors(T) == {-2 * One(T), -One(T), 0, One(T), 2 * One(T)}

\* A build in which debug_assert! is compiled out of div and div_assign.
DebugAssertFails_CompiledOut(f, debug_assertions) == FALSE

\* debug_assert!(!f.is_zero()): checked only with debug assertions.
DebugAssertFails(f, debug_assertions) == debug_assertions /\ f = 0

\* T::one() / f panics for an integer T and f = 0 ("attempt to divide by
\* zero"); for a float T it is +-inf.
OneOverPanics(T, f) == ~IsFloat(T) /\ f = 0

\* T::one() / f with the quotient rounded toward minus infinity.
OneOver_Floored(T, f) == IF f = 0 THEN 0 ELSE (One(T) * One(T)) \div f

\* let inv = T::one() / f
OneOver(T, f) ==
    IF IsFloat(T) THEN FDiv(Scale * Scale, f) ELSE FDiv(1, f)

\* inv * x in T: inf * 0.0 is NaN, inf * x is +-inf.
Times(T, inv, x) ==
    IF ~IsFloat(T) THEN inv * x
    ELSE IF inv = NaN \/ x = NaN THEN NaN
    ELSE IF Abs(inv) = Infinity
    THEN (IF x = 0 THEN NaN
          ELSE IF (inv < 0) = (x < 0) THEN Infinity ELSE -Infinity)
    ELSE FDiv(inv * x, Scale)

\* normal3(inv * self.x, inv * self.y, inv * self.z)
Scaled(T, inv, n) ==
    vector3(Times(T, inv, n.x), Times(T, inv, n.y), Times(T, inv, n.z))

DivPanics(T, f, debug_assertions) ==
    DebugAssertFails(f, debug_assertions) \/ OneOverPanics(T, f)

\* What a call of op on the normal n with the divisor f leaves in result:
\* a panic, or the normal returned (for /=, assigned to self).
DivCall(op, T, n, f, debug_assertions) ==
    Called([op |-> op, T |-> T, n |-> n, f |-> f,
            debug_assertions |-> debug_assertions,
            panicked |-> DivPanics(T, f, debug_assertions),
            val |-> IF DivPanics(T, f, debug_assertions) THEN None
                    ELSE Some(Scaled(T, OneOver(T, f), n))])

\* Div::div(self, f)
NormalDiv ==
    /\ \E T \in ComponentTypes, debug_assertions \in BOOLEAN :
          \E n \in Normals(T), f \in Divisors(T) :
              result' = DivCall("/", T, n, f, debug_assertions)
    /\ UNCHANGED <<shapeVars, siVars, primp, tcVars, mmVars>>

\* DivAssign::div_assign(&mut self, f)
NormalDivAssign ==
    /\ \E T \in ComponentTypes, debug_assertions \in BOOLEAN :
          \E n \in Normals(T), f \in Divisors(T) :
              result' = DivCall("/=", T, n, f, debug_assertions)
    /\ UNCHANGED <<shapeVars, siVars, primp, tcVars, mmVars>>

\* Normal3::normalize (T: Float): *self / self.length()
NormalNormalize ==
    /\ \E debug_assertions \in BOOLEAN :
          \E n \in Normals("f64") :
              result' = DivCall("normalize", "f64", n, Length(n),
                                debug_assertions)
    /\ UNCHANGED <<shapeVars, siVars, primp, tcVars, mmVars>>

InitN3 ==
    /\ FixedShape
    /\ NoShapeCalls
    /\ NoInteraction
    /\ result = NotCalled
    /\ EmptyCaches

NextN3 == NormalDiv \/ NormalDivAssign \/ NormalNormalize

SpecN3 == InitN3 /\ [][NextN3]_vars

----------------------------------------------------------------------------
(* RGBSpectrum from spectral samples *)

\* The CIE matching curves, tabulated at CIE_SAMPLES wavelengths from
\* CIE_LAMBDA_START (in units of 100 nm).
CIE_LAMBDA_START == 4

CIE_SAMPLES == 4

CIE_LAMBDA_END == CIE_LAMBDA_START + CIE_SAMPLES - 1

CIE_X == <<1, 2, 3, 1>>

CIE_Y == <<1, 3, 2, 1>>

CIE_Z == <<3, 1, 1, 0>>

CIE_Y_INTEGRAL == 7

\* Sample { lambda, value }
Sample(lambda, value) == [lambda |-> lambda, value |-> value]

SampleLambdas == CIE_LAMBDA_START..CIE_LAMBDA_END

SampleValues == {0, Scale, 2 * Scale}

\* The Vec<Sample> arguments: one to three samples at distinct
\* wavelengths, in any order.
LambdaPairs == {p \in SampleLambdas \X SampleLambdas : p[1] # p[2]}

LambdaTriples ==
    {t \in SampleLambdas \X SampleLambdas \X SampleLambdas :
        t[1] # t[2] /\ t[1] # t[3] /\ t[2] # t[3]}

SampleLists ==
    {<<Sample(l, v)>> : l \in SampleLambdas, v \in SampleValues}
    \cup {<<Sample(p[1], v1), Sample(p[2], v2)>> :
              p \in LambdaPairs, v1 \in SampleValues, v2 \in SampleValues}
    \cup {<<Sample(t[1], v1), Sample(t[2], v2), Sample(t[3], v3)>> :
              t \in LambdaTriples,
              v1 \in SampleValues, v2 \in SampleValues, v3 \in SampleValues}

\* are_spectrum_samples_sorted: no sample's wavelength is above the next
\* one's.
are_spectrum_samples_sorted(samples) ==
    \A i \in 1..(Len(samples) - 1) : samples[i].lambda <= samples[i + 1].lambda

\* The index of a sample of least wavelength.
FirstLambda(samples) ==
    CHOOSE i \in 1..Len(samples) :
        \A j \in 1..Len(samples) :
            /\ samples[i].lambda <= samples[j].lambda
            /\ samples[i].lambda = samples[j].lambda => i <= j

Without(samples, i) ==
    SubSeq(samples, 1, i - 1) \o SubSeq(samples, i + 1, Len(samples))

\* sort_spectrum_samples: the samples by increasing wavelength.
RECURSIVE sort_spectrum_samples(_)
sort_spectrum_samples(samples) ==
    IF samples = <<>> THEN <<>>
    ELSE <<samples[FirstLambda(samples)]>>
             \o sort_spectrum_samples(Without(samples, FirstLambda(samples)))

\* find_interval(size, pred): the bisection for the last index at which
\* pred holds, on 0-based indices, clamped to 0..size - 2.
RECURSIVE Bisect(_, _, _, _)
Bisect(samples, l, first, len) ==
    IF len <= 0 THEN first
    ELSE IF samples[first + (len \div 2) + 1].lambda <= l
    THEN Bisect(samples, l, first + (len \div 2) + 1, len - (len \div 2) - 1)
    ELSE Bisect(samples, l, first, len \div 2)

find_interval(samples, l) ==
    clamp(Bisect(samples, l, 0, Len(samples)) - 1, 0, Len(samples) - 2)

\* lerp(t, a, b) with t in fixed point.
lerp(t, a, b) == FDiv((Scale - t) * a + t * b, Scale)

\* The samples at 0-based offset and offset + 1, interpolated at l.
LerpAt(samples, l, offset) ==
    lerp(FDiv((l - samples[offset + 1].lambda) * Scale,
              samples[offset + 2].lambda - samples[offset + 1].lambda),
         samples[offset + 1].value, samples[offset + 2].value)

\* interpolate_spectrum_samples(samples, l): the end values outside the
\* first and last sample, the linear interpolation of the two samples
\* around l between them.
interpolate_spectrum_samples(samples, l) ==
    IF l <= samples[1].lambda THEN samples[1].value
    ELSE IF l >= samples[Len(samples)].lambda THEN samples[Len(samples)].value
    ELSE LerpAt(samples, l, find_interval(samples, l))

\* The sum over the tabulated wavelengths of val * curve[i].
RECURSIVE Integrate(_, _, _)
Integrate(samples, curve, i) ==
    IF i >= CIE_SAMPLES THEN 0
    ELSE interpolate_spectrum_samples(samples, CIE_LAMBDA_START + i)
             * curve[i + 1]
         + Integrate(samples, curve, i + 1)

\* xyz[k] *= scale
Scaled_xyz(sum) ==
    FDiv(sum * (CIE_LAMBDA_END - CIE_LAMBDA_START),
         CIE_Y_INTEGRAL * CIE_SAMPLES)

\* xyz_to_rgb, with the matrix in hundredths.
xyz_to_rgb(xyz) ==
    <<324 * xyz[1] - 154 * xyz[2] - 50 * xyz[3],
      -97 * xyz[1] + 188 * xyz[2] + 4 * xyz[3],
      6 * xyz[1] - 20 * xyz[2] + 106 * xyz[3]>>

\* The conversion with the interpolation done on the list interpolated.
FromInterpolated(interpolated) ==
    [c |-> xyz_to_rgb(<<Scaled_xyz(Integrate(interpolated, CIE_X, 0)),
                        Scaled_xyz(Integrate(interpolated, CIE_Y, 0)),
                        Scaled_xyz(Integrate(interpolated, CIE_Z, 0))>>)]

\* let mut sorted_samples = samples.clone(); sorted if samples is not.
SortedSamples(samples) ==
    IF ~are_spectrum_samples_sorted(samples)
    THEN sort_spectrum_samples(samples)
    ELSE samples

\* From<&Vec<Sample>>::from: sorted_samples is built, and the loop
\* interpolates samples, the argument.
FromSamples(samples) == FromInterpolated(samples)

\* RGBSpectrum::from(&samples)
RGBSpectrumFromSamples ==
    /\ \E samples \in SampleLists :
          result' = Called([op |-> "from_samples", samples |-> samples,
                            sorted_samples |-> SortedSamples(samples),
                            val |-> FromSamples(samples)])
    /\ UNCHANGED <<shapeVars, siVars, primp, tcVars, mmVars>>

InitRGB ==
    /\ FixedShape
    /\ NoShapeCalls
    /\ NoInteraction
    /\ result = NotCalled
    /\ EmptyCaches

NextRGB == RGBSpectrumFromSamples

SpecRGB == InitRGB /\ [][NextRGB]_vars

----------------------------------------------------------------------------
(* BSSRDFTable *)

\* The largest n_rho_samples and n_radius_samples tried.
MaxSamples == 3

\* BumpVec::with_capacity_in(capacity, arena): an empty vector; the
\* capacity is room reserved, not length.
with_capacity_in(capacity) == <<>>

\* The contents the filled tables are told apart by.
Seeds == {0, 10, 20, 30, 40, 50}

\* A vector of n values that external code has pushed, told apart by seed.
Pushed(n, seed) == [i \in 1..n |-> seed + i]

\* BSSRDFTable::alloc(arena, n_rho_samples, n_radius_samples)
alloc(n_rho_samples, n_radius_samples) ==
    [rho_samples |-> with_capacity_in(n_rho_samples),
     radius_samples |-> with_capacity_in(n_radius_samples),
     profile |-> with_capacity_in(n_radius_samples * n_rho_samples),
     profile_cdf |-> with_capacity_in(n_radius_samples * n_rho_samples),
     rho_eff |-> with_capacity_in(n_rho_samples),
     n_rho_samples |-> n_rho_samples,
     n_radius_samples |-> n_radius_samples]

\* A table whose vectors have been filled to their full lengths.
Filled(n_rho_samples, n_radius_samples, seed) ==
    [rho_samples |-> Pushed(n_rho_samples, seed),
     radius_samples |-> Pushed(n_radius_samples, seed + 1),
     profile |-> Pushed(n_radius_samples * n_rho_samples, seed + 2),
     profile_cdf |-> Pushed(n_radius_samples * n_rho_samples, seed + 3),
     rho_eff |-> Pushed(n_rho_samples, seed + 4),
     n_rho_samples |-> n_rho_samples,
     n_radius_samples |-> n_radius_samples]

\* The tables clone_alloc is called on: as allocated, and filled.
Tables ==
    {alloc(n, m) : n \in 0..MaxSamples, m \in 0..MaxSamples}
    \cup {Filled(n, m, seed) : n \in 0..MaxSamples, m \in 0..MaxSamples,
                               seed \in Seeds}

\* for i in from..n { dst[i] = src[i]; }: Index and IndexMut panic at an
\* index that is not below the vector's length. None is the panic.
RECURSIVE CopyLoop(_, _, _, _)
CopyLoop(dst, src, i, n) ==
    IF i >= n THEN Some(dst)
    ELSE IF i >= Len(src) \/ i >= Len(dst) THEN None
    ELSE CopyLoop([dst EXCEPT ![i + 1] = src[i + 1]], src, i + 1, n)

\* The five vectors of clone_alloc after its loops.
ClonedVectors(self) ==
    [rho_samples |->
         CopyLoop(with_capacity_in(self.n_rho_samples), self.rho_samples,
                  0, self.n_rho_samples),
     radius_samples |->
         CopyLoop(with_capacity_in(self.n_radius_samples),
                  self.radius_samples, 0, self.n_radius_samples),
     profile |->
         CopyLoop(with_capacity_in(self.n_radius_samples * self.n_rho_samples),
                  self.profile, 0, self.n_radius_samples * self.n_rho_samples),
     profile_cdf |->
         CopyLoop(with_capacity_in(self.n_radius_samples * self.n_rho_samples),
                  self.profile_cdf, 0,
                  self.n_radius_samples * self.n_rho_samples),
     rho_eff |->
         CopyLoop(with_capacity_in(self.n_rho_samples), self.rho_eff,
                  0, self.n_rho_samples)]

ClonePanics(v) ==
    \/ ~v.rho_samples.some
    \/ ~v.radius_samples.some
    \/ ~v.profile.some
    \/ ~v.profile_cdf.some
    \/ ~v.rho_eff.some

\* arena.alloc(Self { .. }) of clone_alloc
ClonedTable(self, v) ==
    [rho_samples |-> v.rho_samples.val,
     radius_samples |-> v.radius_samples.val,
     profile |-> v.profile.val,
     profile_cdf |-> v.profile_cdf.val,
     rho_eff |-> v.rho_eff.val,
     n_rho_samples |-> self.n_rho_samples,
     n_radius_samples |-> self.n_radius_samples]

\* BSSRDFTable::clone_alloc(&self, arena): a panic, or the new table.
clone_alloc(self) ==
    IF ClonePanics(ClonedVectors(self)) THEN None
    ELSE Some(ClonedTable(self, ClonedVectors(self)))

TableAlloc ==
    /\ \E n \in 0..MaxSamples, m \in 0..MaxSamples :
          result' = Called([op |-> "alloc", n_rho_samples |-> n,
                            n_radius_samples |-> m, val |-> alloc(n, m)])
    /\ UNCHANGED <<shapeVars, siVars, primp, tcVars, mmVars>>

TableCloneAlloc ==
    /\ \E self \in Tables :
          result' = Called([op |-> "clone_alloc", self |-> self,
                            panicked |-> ~clone_alloc(self).some,
                            val |-> clone_alloc(self)])
    /\ UNCHANGED <<shapeVars, siVars, primp, tcVars, mmVars>>

InitBT ==
    /\ FixedShape
    /\ NoShapeCalls
    /\ NoInteraction
    /\ result = NotCalled
    /\ EmptyCaches

NextBT == TableAlloc \/ TableCloneAlloc

SpecBT == InitBT /\ [][NextBT]_vars

\* ---------------------------------------------------------------------
\* What the current shape, ray and error bound determine, for stating the
\* properties of the calls recorded in isect and hitp.

\* The ray in object space.
ObjectRay == transform_ray_with_error(shape.data.world_to_object, ray)

\* The roots the shape's quadratic has for the current ray.
Roots ==
    IF shape.kind = "Sphere" THEN SphereRoots(shape, ObjectRay, err)
    ELSE ParaboloidRoots(shape, ObjectRay, err)

\* The hit point at parameter t fails the shape's clipping test.
ClippedAt(t) ==
    IF shape.kind = "Sphere"
    THEN SphereClipped(shape, SphereHitPoint(shape, ObjectRay, t))
    ELSE ParaboloidClipped(shape, ParaboloidHitPoint(shape, ObjectRay, t))

\* The results of the shape calls made on the current ray.
CallResults == {c.ret : c \in {x \in {isect, hitp} : x.called}}

\* The first test of the code: the nearer root lies beyond t_max or the
\* farther root is not in front of the origin.
RejectsBoth ==
    /\ Roots.some
    /\ \/ upper_bound(Roots.val.t0) > ObjectRay.t_max
       \/ lower_bound(Roots.val.t1) <= 0

\* The candidate the first clipping test is applied to.
FirstCandidate ==
    IF lower_bound(Roots.val.t0) <= 0 THEN Roots.val.t1 ELSE Roots.val.t0

\* The call gets as far as the first clipping test.
ReachesClipping ==
    /\ Roots.some
    /\ ~RejectsBoth
    /\ ~(lower_bound(Roots.val.t0) <= 0
         /\ upper_bound(Roots.val.t1) > ObjectRay.t_max)

\* ---------------------------------------------------------------------
\* C1: for the same shape and the same ray, intersect returns Some exactly
\* when intersect_p returns true, whichever path the call takes.
C1_IntersectAgreesWithIntersectP ==
    (isect.called /\ hitp.called) => (isect.ret.some = hitp.ret.some)

\* Both calls were made and the hit was found on the retry with the
\* farther root.
C1_Witness ==
    /\ isect.called
    /\ hitp.called
    /\ isect.ret.some
    /\ isect.ret.path = "hit_retry"
    /\ hitp.ret.path = "hit_retry"

\* C2 (as the code has it): both roots are rejected before any hit point
\* is computed exactly when the nearer root's upper bound exceeds t_max or
\* the farther root's lower bound is not positive.
C2_RejectBothRoots ==
    \A c \in CallResults :
        /\ (c.path = "reject_both") <=> RejectsBoth
        /\ RejectsBoth => (~c.some /\ c.clips = 0)

\* A call rejected at the first test although the farther root is in
\* front of the origin: the nearer root is already beyond t_max.
C2_Witness ==
    /\ isect.called
    /\ isect.ret.path = "reject_both"
    /\ lower_bound(Roots.val.t1) > 0
    /\ upper_bound(Roots.val.t0) > ObjectRay.t_max

\* C2 (as stated): both roots are rejected exactly when the farther root's
\* lower bound exceeds t_max or the nearer root's upper bound is not
\* positive.
C2_AsStated ==
    \A c \in CallResults :
        (c.path = "reject_both") <=>
            /\ Roots.some
            /\ \/ lower_bound(Roots.val.t1) > ObjectRay.t_max
               \/ upper_bound(Roots.val.t0) <= 0

\* C3: the candidate is the nearer root t0; the farther root replaces it
\* before any clipping test only when t0's lower bound is not positive,
\* and then nothing is reported if t1's upper bound exceeds t_max; when t0
\* passes the bound tests and the clipping test, the reported t is t0.
C3_NearerRootFirst ==
    \A c \in CallResults :
        /\ c.path \in {"hit_far", "far_beyond"} =>
               (Roots.some /\ lower_bound(Roots.val.t0) <= 0)
        /\ (Roots.some /\ ~RejectsBoth /\ lower_bound(Roots.val.t0) <= 0
              /\ upper_bound(Roots.val.t1) > ObjectRay.t_max) =>
               (~c.some /\ c.clips = 0)
        /\ (Roots.some /\ ~RejectsBoth /\ lower_bound(Roots.val.t0) > 0
              /\ ~ClippedAt(Roots.val.t0)) =>
               /\ c.some
               /\ c.path = "hit_near"
               /\ c.isect.some => c.t = Roots.val.t0.v

\* intersect reported the nearer root although the farther root was
\* within the ray's extent as well.
C3_Witness ==
    /\ isect.called
    /\ isect.ret.some
    /\ isect.ret.path = "hit_near"
    /\ isect.ret.t = Roots.val.t0.v
    /\ Roots.val.t0.v < Roots.val.t1.v
    /\ upper_bound(Roots.val.t1) <= ObjectRay.t_max

\* C4: when the first clipping test fails, a nearer-root candidate is
\* retried with the farther root exactly once (rejected if t1's upper
\* bound exceeds t_max or its hit point fails the same clipping test); a
\* candidate whose value equals t1 ends the call with no intersection; no
\* call makes more than two clipping tests.
C4_RetryOnce ==
    \A c \in CallResults :
        /\ c.clips <= 2
        /\ (ReachesClipping /\ ClippedAt(FirstCandidate)) =>
               IF FirstCandidate.v = Roots.val.t1.v
               THEN ~c.some /\ c.clips = 1
               ELSE IF upper_bound(Roots.val.t1) > ObjectRay.t_max
               THEN ~c.some /\ c.clips = 1
               ELSE IF ClippedAt(Roots.val.t1)
               THEN ~c.some /\ c.clips = 2
               ELSE /\ c.some
                    /\ c.clips = 2
                    /\ c.isect.some => c.t = Roots.val.t1.v

\* A paraboloid's intersect_p whose nearer root failed the clipping test
\* and whose farther root failed it too.
C4_Witness ==
    /\ hitp.called
    /\ shape.kind = "Paraboloid"
    /\ hitp.ret.path = "retry_clipped"
    /\ hitp.ret.clips = 2
    /\ Roots.val.t0.v < Roots.val.t1.v


\* ---------------------------------------------------------------------
\* The scenarios of the unit sphere at the origin (radius 1.0 is Scale).

\* The ray from (0,0,5) with direction (0,0,-1) and unbounded t_max.
AxisRay ==
    ray = [o |-> vector3(0, 0, 5 * Scale), d |-> vector3(0, 0, -1),
           t_max |-> Infinity]

\* The unit sphere clipped to z_max = 0.5, identity transform.
ClippedUnitSphere ==
    \E ro \in BOOLEAN :
        shape = sphere("identity", "identity", ro, Scale, -Scale, Scale \div 2,
                       360)

\* The full unit sphere, identity transform, orientation not reversed.
FullUnitSphere ==
    shape = sphere("identity", "identity", FALSE, Scale, -Scale, Scale, 360)

\* C5 (as the code has it): the ray from (0,0,5) along -z against the unit
\* sphere clipped to z_max = 0.5 misses the clipped cap at t = 4 and is
\* retried with the farther root: intersect returns the hit at t = 6 on
\* the bottom of the sphere (z = -1, x nudged off the axis), and
\* intersect_p returns true.
C5_ClippedSphereHitsFarSide ==
    (AxisRay /\ ClippedUnitSphere) =>
        /\ isect.called =>
               /\ isect.ret.some
               /\ isect.ret.path = "hit_retry"
               /\ isect.ret.t = 6 * Scale
               /\ isect.ret.isect.val.hit.p = vector3(1, 0, -Scale)
        /\ hitp.called => hitp.ret.some

\* Both calls made in the scenario, after two clipping tests each.
C5_Witness ==
    /\ AxisRay
    /\ ClippedUnitSphere
    /\ isect.called
    /\ hitp.called
    /\ isect.ret.clips = 2
    /\ hitp.ret.clips = 2

\* C5 (as stated): in the scenario intersect returns None and intersect_p
\* returns false.
C5_AsStated ==
    (AxisRay /\ ClippedUnitSphere) =>
        /\ isect.called => ~isect.ret.some
        /\ hitp.called => ~hitp.ret.some

\* C6 (as the code has it): the ray from (0,0,5) along -z against the full
\* unit sphere hits at t = 4 with geometric normal (0,0,1); the hit
\* position is (1e-5 * radius, 0, 1), its x moved off the z axis by the
\* nudge (one unit of length here).
C6_FullSphereHit ==
    (AxisRay /\ FullUnitSphere /\ isect.called) =>
        /\ isect.ret.some
        /\ isect.ret.t = 4 * Scale
        /\ isect.ret.isect.val.hit.p = vector3(1, 0, Scale)
        /\ isect.ret.isect.val.hit.n = vector3(0, 0, Scale)

\* intersect was called in the scenario and found the nearer root.
C6_Witness ==
    /\ AxisRay
    /\ FullUnitSphere
    /\ isect.called
    /\ isect.ret.path = "hit_near"
    /\ isect.ret.isect.val.hit.p.x # 0

\* C6 (as stated): the hit has t = 4, position (0,0,1) and normal (0,0,1).
C6_AsStated ==
    (AxisRay /\ FullUnitSphere /\ isect.called) =>
        /\ isect.ret.some
        /\ isect.ret.t = 4 * Scale
        /\ isect.ret.isect.val.hit.p = vector3(0, 0, Scale)
        /\ isect.ret.isect.val.hit.n = vector3(0, 0, Scale)

\* ---------------------------------------------------------------------
\* A dot product that is a number below zero.
Negative(d) == d # NaN /\ d < 0

\* C7 (as stated): in every SurfaceInteraction, as constructed and as
\* returned by update_shading_geometry, the geometric normal and the
\* shading normal have a dot product that is not negative.
C7_SameHemisphere ==
    /\ si.some => ~Negative(Dot(si.val.hit.n, si.val.shading.n))
    /\ (usg.called /\ ~usg.ret.panicked) =>
           ~Negative(Dot(usg.ret.out.n, usg.ret.out.shading.n))

\* C8: the geometric normal stored by surface_interaction() is
\* normalize(dpdu x dpdv), negated exactly when the attached shape's
\* reverse_orientation differs from its transform_swaps_handedness; with
\* no shape attached it is not negated.
C8_NormalFlipIsXor ==
    si.some =>
        si.val.hit.n =
            IF si.val.shape.some
               /\ (si.val.shape.val.data.reverse_orientation
                   # si.val.shape.val.data.transform_swaps_handedness)
            THEN Neg(Normalize(Cross(si.val.dpdu, si.val.dpdv)))
            ELSE Normalize(Cross(si.val.dpdu, si.val.dpdv))

\* Both flags true: the stored normal is the cross product's direction,
\* not its negation.
C8_Witness ==
    /\ si.some
    /\ si.val.shape.some
    /\ si.val.shape.val.data.reverse_orientation
    /\ si.val.shape.val.data.transform_swaps_handedness
    /\ ~IsNaNVec(si.val.hit.n)
    /\ si.val.hit.n = Normalize(Cross(si.val.dpdu, si.val.dpdv))
    /\ si.val.hit.n # Neg(Normalize(Cross(si.val.dpdu, si.val.dpdv)))

\* C9 (as the code has it): the interaction a shape's intersect returns
\* refers to the shape, set by the shape itself, and to no primitive; the
\* primitive is attached by GeometricPrimitive::intersect.
C9_BackReferences ==
    /\ (isect.called /\ isect.ret.some) =>
           /\ isect.ret.isect.val.shape = Some(shape)
           /\ isect.ret.isect.val.primitive = None
    /\ (prim.called /\ prim.ret.ret.some) =>
           /\ prim.ret.ret.val.shape = Some(shape)
           /\ prim.ret.ret.val.primitive = Some("self")

\* A hit returned by the shape, with its shape reference and no primitive.
C9_Witness ==
    /\ isect.called
    /\ isect.ret.some
    /\ isect.ret.isect.val.shape.some
    /\ ~isect.ret.isect.val.primitive.some

\* C9 (as stated): the interaction a shape's intersect returns has neither
\* a shape reference nor a primitive reference.
C9_AsStated ==
    (isect.called /\ isect.ret.some) =>
        /\ isect.ret.isect.val.shape = None
        /\ isect.ret.isect.val.primitive = None

\* C10: a call of update_shading_geometry leaves the SurfaceInteraction it
\* is called on as it was, and the geometric normal it returns differs
\* from self.hit.n only when orientation_is_authoritative is true.
C10_GeometricNormalPreserved ==
    [][(usg' # usg /\ usg'.called) =>
          /\ si' = si
          /\ (~usg'.ret.panicked /\ ~usg'.ret.authoritative) =>
                 usg'.ret.out.n = si.val.hit.n]_vars

\* An authoritative call that returned a geometric normal other than
\* self.hit.n, with self unchanged.
C10_Witness ==
    /\ si.some
    /\ usg.called
    /\ ~usg.ret.panicked
    /\ usg.ret.authoritative
    /\ usg.ret.out.n # si.val.hit.n
    /\ ~IsNaNVec(usg.ret.out.n)


\* ---------------------------------------------------------------------
\* The cache holds at most one instance per matrix value.
OneInstancePerValue ==
    \A a \in transforms, b \in transforms : a.val = b.val => a = b

\* A step in which thread th returns from lookup.
LookupReturns(th) == lookups[th].pc = "get" /\ lookups'[th].pc = "done"

\* C11: after any sequence of lookup and clear calls the cache holds at
\* most one instance per transform value; a lookup of a value already
\* cached returns the stored instance and leaves the cache as it is, a
\* lookup of an uncached value stores and returns the argument's instance;
\* looking up an instance the cache returned gives that instance again.
C11_LookupDeduplicates ==
    /\ []OneInstancePerValue
    /\ [][\A th \in Threads :
             LookupReturns(th) =>
                 /\ lookups'[th].ret \in transforms'
                 /\ lookups'[th].ret.val = lookups[th].t.val
                 /\ IF \E c \in transforms : c.val = lookups[th].t.val
                    THEN /\ lookups'[th].ret \in transforms
                         /\ transforms' = transforms
                    ELSE /\ lookups'[th].ret = lookups[th].t
                         /\ transforms' = transforms \cup {lookups[th].t}
                 /\ lookups[th].t \in transforms =>
                        lookups'[th].ret = lookups[th].t]_vars

\* A lookup returned the instance stored earlier, not its own argument.
C11_Witness ==
    \E th \in Threads :
        /\ lookups[th].pc = "done"
        /\ lookups[th].ret # lookups[th].t
        /\ lookups[th].ret.val = lookups[th].t.val
        /\ lookups[th].ret \in transforms

C13_PrimitiveUpdatesRayOnHit ==
    [][/\ prim' # prim =>
             IF intersect(shape, ray, err).some
             THEN /\ ray' = [ray EXCEPT !.t_max = intersect(shape, ray, err).t]
                  /\ \/ prim'.ret.panicked
                     \/ /\ prim'.ret.ret.some
                        /\ prim'.ret.ret.val.primitive = Some("self")
             ELSE /\ ray' = ray
                  /\ prim'.ret.ret = None
                  /\ ~prim'.ret.panicked
       /\ ray' # ray => (prim' # prim /\ intersect(shape, ray, err).some)
       /\ primp' # primp => (ray' = ray \/ prim' # prim)]_vars

\* The primitive returned a hit with itself attached and shortened the
\* ray; intersect_p was then called on the shortened ray.
C13_Witness ==
    /\ prim.called
    /\ prim.ret.ret.some
    /\ prim.ret.ret.val.primitive = Some("self")
    /\ ray.t_max < prim.ret.t_max_before
    /\ primp.called

\* C14: Sphere::area() returns phi_max * radius * (z_max - z_min) of the
\* clamped parameters: 4 pi for the full unit sphere, 2 pi for the unit
\* sphere with z_min = 0 and the full phi range; it is never negative.
C14_SphereArea ==
    (result.called /\ result.ret.op = "area") =>
        /\ result.ret.val
               = shape.phi_max * shape.radius * (shape.z_max - shape.z_min)
        /\ result.ret.val >= 0
        /\ (shape.radius = Scale /\ shape.phi_max = TWO_PI
              /\ shape.z_min = -Scale /\ shape.z_max = Scale) =>
               result.ret.val = 4 * PI * Scale * Scale
        /\ (shape.radius = Scale /\ shape.phi_max = TWO_PI
              /\ shape.z_min = 0 /\ shape.z_max = Scale) =>
               result.ret.val = 2 * PI * Scale * Scale

\* The area of the unit hemisphere was computed, and that of a sphere
\* with half the phi range.
C14_Witness ==
    /\ result.called
    /\ result.ret.op = "area"
    /\ shape.radius = Scale
    /\ shape.z_min = 0
    /\ shape.z_max = Scale
    /\ shape.phi_max = PI
    /\ result.ret.val = PI * Scale * Scale

\* p lies inside the box b.
InsideBox(p, b) ==
    /\ ~IsNaNVec(p)
    /\ b.p_min.x <= p.x /\ p.x <= b.p_max.x
    /\ b.p_min.y <= p.y /\ p.y <= b.p_max.y
    /\ b.p_min.z <= p.z /\ p.z <= b.p_max.z

\* C15 (as stated): for every hit accepted by Sphere::intersect or
\* Paraboloid::intersect the object-space hit point lies inside the box
\* object_bound() returns.
C15_HitInsideObjectBound ==
    (isect.called /\ isect.ret.some) =>
        InsideBox(Apply(shape.data.world_to_object,
                        isect.ret.isect.val.hit.p),
                  object_bound(shape))

Successful(id, info) ==
    {th \in Threads :
        /\ gets[th].pc = "done"
        /\ gets[th].cache = id
        /\ gets[th].info = info
        /\ gets[th].ret.some}

\* C17: under any interleaving of concurrent MIPMapCache::get calls with
\* equal TexInfo and no clear in between, the texture is loaded
\* successfully at most once, and every successful caller holds the one
\* instance the cache stores for that TexInfo.
C17_LoadedOnceAndShared ==
    \A id \in CacheIds, info \in TexInfos :
        /\ Cardinality({l \in loads : l.cache = id /\ l.info = info}) <= 1
        /\ Cardinality(Cached(mipmaps[id], info)) <= 1
        /\ \A th \in Successful(id, info) :
               Cached(mipmaps[id], info)
                   = {[info |-> info, mipmap |-> gets[th].ret.val]}

\* Two threads asked one cache for the same TexInfo and hold the same
\* instance, loaded once.
C17_Witness ==
    \E id \in CacheIds, info \in TexInfos :
        /\ Successful(id, info) = Threads
        /\ \A a \in Threads, b \in Threads : gets[a].ret = gets[b].ret
        /\ Cardinality({l \in loads : l.cache = id /\ l.info = info}) = 1


\* ---------------------------------------------------------------------
\* The call recorded in result is a call of op.
ResultOf(op) == result.called /\ result.ret.op = op

\* C18: LightType::from(u8) accepts every bitwise-OR combination of the
\* four light flags, i.e. every value 0..=15, and panics only for values
\* with bits outside those flags.
C18_FromAcceptsFlagCombinations ==
    ResultOf("from") =>
        (result.ret.panicked <=> BitAnd(result.ret.t, 15) # result.ret.t)

\* C19: LightType equality is true exactly when the two light types hold
\* the same flags, and it is symmetric.
C19_EqIsExactAndSymmetric ==
    ResultOf("eq") =>
        /\ result.ret.val <=> (result.ret.a = result.ret.b)
        /\ result.ret.val <=> eq(result.ret.b, result.ret.a)

\* The call recorded in result divided a normal by zero.
DividedByZero ==
    /\ result.called
    /\ result.ret.op \in {"/", "/=", "normalize"}
    /\ result.ret.f = 0

NonFinite(x) == x = NaN \/ Abs(x) = Infinity

IntegerDivision ==
    /\ result.called
    /\ result.ret.op \in {"/", "/="}
    /\ ~IsFloat(result.ret.T)
    /\ result.ret.f # 0

ZeroNormal == vector3(0, 0, 0)

\* C21: for an integer Normal3 n and a non-zero integer f, n / f and
\* n /= f are n scaled component-wise by the integer quotient 1 / f: the
\* zero normal when |f| >= 2, n for f = 1 and -n for f = -1.
C21_IntegerDivisionTruncates ==
    IntegerDivision =>
        /\ ~result.ret.panicked
        /\ result.ret.val =
               Some(IF result.ret.f = 1 THEN result.ret.n
                    ELSE IF result.ret.f = -1 THEN Neg(result.ret.n)
                    ELSE ZeroNormal)

\* A non-zero integer normal was divided by -2 and the zero normal came
\* back.
C21_Witness ==
    /\ IntegerDivision
    /\ result.ret.f = -2
    /\ result.ret.n # ZeroNormal
    /\ result.ret.val = Some(ZeroNormal)


\* ---------------------------------------------------------------------
\* C22: converting a list of spectral samples to an RGBSpectrum does not
\* depend on the order of the samples: the result is the conversion of
\* the samples sorted by wavelength.
C22_OrderIndependent ==
    ResultOf("from_samples") =>
        result.ret.val
            = FromInterpolated(sort_spectrum_samples(result.ret.samples))


\* ---------------------------------------------------------------------
\* C23: BSSRDFTable::clone_alloc of a table with n_rho_samples >= 1 and
\* n_radius_samples >= 1 completes without panicking, and the copy has
\* the same sample counts and element-wise equal vectors of the full
\* lengths.
C23_CloneIsCopy ==
    (/\ ResultOf("clone_alloc")
     /\ result.ret.self.n_rho_samples >= 1
     /\ result.ret.self.n_radius_samples >= 1)
    => /\ ~result.ret.panicked
       /\ result.ret.val.some
       /\ result.ret.val.val = result.ret.self
       /\ Len(result.ret.val.val.rho_samples) = result.ret.self.n_rho_samples
       /\ Len(result.ret.val.val.profile)
              = result.ret.self.n_rho_samples * result.ret.self.n_radius_samples


\* ---------------------------------------------------------------------
\* C24: the shading normal update_shading_geometry returns is
\* normalize(dpdu x dpdv) of the dpdu and dpdv arguments or its negation,
\* for every attached shape and every combination of reverse_orientation,
\* transform_swaps_handedness and orientation_is_authoritative; it does
\* not depend on the shading normal stored before the call.
C24_ShadingNormalFromArguments ==
    (/\ usg.called
     /\ ~usg.ret.panicked
     /\ MaxAbs(Cross(usg.ret.dpdu, usg.ret.dpdv)) # 0)
    => \/ usg.ret.out.shading.n
              = Normalize(Cross(usg.ret.dpdu, usg.ret.dpdv))
       \/ usg.ret.out.shading.n
              = Neg(Normalize(Cross(usg.ret.dpdu, usg.ret.dpdv)))


\* ---------------------------------------------------------------------
\* C25: no hit accepted by Sphere::intersect or Paraboloid::intersect
\* divides by zero when it computes dndu and dndv: the fundamental-form
\* divisor e1 * g1 - f1 * f1 of an accepted hit is not zero, also for a
\* sphere with z_min = z_max and a paraboloid hit at the apex.
C25_DivisorNeverZero ==
    (isect.called /\ isect.ret.some) =>
        FundamentalFormDivisor(isect.ret.isect.val.dpdu,
                               isect.ret.isect.val.dpdv) # 0


\* ---------------------------------------------------------------------
\* The stored parameters of the shape lie in the ranges the constructors
\* clamp them to.
ParametersInRange ==
    /\ -shape.radius <= shape.z_min
    /\ shape.z_min <= shape.z_max
    /\ shape.z_max <= shape.radius
    /\ 0 <= shape.phi_max
    /\ shape.phi_max <= TWO_PI

\* C26: a Sphere or Paraboloid built with radius > 0 stores
\* -radius <= z_min <= z_max <= radius and 0 <= phi_max <= 2 pi whatever
\* the order and magnitude of the arguments, and intersect, intersect_p,
\* area, object_bound and get_data leave the stored values as they are.
C26_ParametersClampedAndKept ==
    []ParametersInRange /\ [][shape' = shape]_vars

\* A sphere built from z and phi arguments out of order and out of range,
\* after intersect, intersect_p and a third call on it.
C26_Witness ==
    /\ shape = sphere("identity", "identity", FALSE, Scale, 30, -5, 720)
    /\ shape.z_min = -5
    /\ shape.z_max = Scale
    /\ shape.phi_max = TWO_PI
    /\ isect.called
    /\ hitp.called
    /\ result.called


\* ---------------------------------------------------------------------
\* Each root's value lies between its lower and its upper bound.
RootsWithinBounds ==
    /\ lower_bound(Roots.val.t0) <= Roots.val.t0.v
    /\ Roots.val.t0.v <= upper_bound(Roots.val.t0)
    /\ lower_bound(Roots.val.t1) <= Roots.val.t1.v
    /\ Roots.val.t1.v <= upper_bound(Roots.val.t1)

\* C27: every hit reported by Sphere::intersect or Paraboloid::intersect
\* has a distance t with 0 < t <= ray.t_max, given that each root's value
\* lies between its bounds, and t is the value of one of the two roots.
C27_HitWithinRay ==
    (isect.called /\ isect.ret.some) =>
        /\ Roots.some
        /\ isect.ret.t \in {Roots.val.t0.v, Roots.val.t1.v}
        /\ RootsWithinBounds => (0 < isect.ret.t /\ isect.ret.t <= ray.t_max)

\* A ray cut off at t_max = 2.0 whose hit is the farther root, the nearer
\* one lying behind the origin.
C27_Witness ==
    /\ isect.called
    /\ isect.ret.some
    /\ RootsWithinBounds
    /\ ray.t_max = 20
    /\ isect.ret.path = "hit_far"
    /\ isect.ret.t = Roots.val.t1.v
    /\ Roots.val.t0.v < 0


\* ---------------------------------------------------------------------
\* The last hit returned for the ray is the nearest of the hits returned.
LastHitIsNearest == result.ret.last = result.ret.nearest

\* C28: across any sequence of GeometricPrimitive::intersect calls made
\* with one mutable ray against any primitives, the ray's t_max never
\* increases and every hit returned has a distance no greater than the
\* t_max in effect before the call; hence the last hit returned is the
\* nearest of all hits returned.
C28_TMaxNeverIncreases ==
    /\ []LastHitIsNearest
    /\ [][/\ ray'.t_max <= ray.t_max
          /\ (prim' # prim /\ prim'.ret.ret.some) =>
                 /\ result'.ret.last.val <= ray.t_max
                 /\ ray'.t_max = result'.ret.last.val]_vars

\* A second hit, on another primitive, nearer than the first.
C28_Witness ==
    /\ prim.called
    /\ prim.ret.ret.some
    /\ prim.ret.t_max_before < Infinity
    /\ result.ret.last.val < prim.ret.t_max_before
    /\ ray.t_max = result.ret.last.val

====
